---- MODULE Spec2Model ----
(***************************************************************************)
(* A model of the Kademlia overlay of gxnda/kademlia: the RPC server side  *)
(* of a node (kademlia_dht/node.py), the two storage variants              *)
(* (kademlia_dht/storage.py) and the routing table the node consults.      *)
(*                                                                         *)
(* Identifiers are IdBits wide instead of 160 bits, a bucket holds K       *)
(* contacts instead of 20; everything else keeps the source's shape.       *)
(* Nested RPCs are synchronous, as with the loopback protocol the unit     *)
(* tests use: the callee's handler runs inside the caller's step.          *)
(***************************************************************************)
EXTENDS Integers, Sequences, FiniteSets, TLC

\* ------------------------------------------------------------------ bounds

IdBits == 4          \* width of an ID (ID_LENGTH_BITS, 160 in the program)
K == 2               \* contacts per bucket (Constants.K, 20 in the program)
B == 2               \* bucket-split depth modulus (Constants.B, 5 in the program)
EvictionLimit == 2   \* failures before a contact is evicted (EVICTION_LIMIT, 5)
MaxSteps == 3        \* RPCs handled in one behaviour of Spec
MaxClock == 1        \* ticks of the wall clock in one behaviour
MaxDepth == 3        \* nesting of RPCs inside one handler that is followed
MaxContacts == 4     \* contacts a routing table is populated with in SpecFind
MaxKey == 1          \* storage keys are 0 .. MaxKey
MaxCalls == 1        \* storage calls one thread makes in SpecConc

\* ------------------------------------------------------- program constants

EXPIRATION_TIME_SEC == 86400

\* ---------------------------------------------------------------- ID space

RECURSIVE Pow2(_)
Pow2(n) == IF n = 0 THEN 1 ELSE 2 * Pow2(n - 1)

IdCount == Pow2(IdBits)
Ids == 0 .. (IdCount - 1)

\* ID.__xor__: the XOR distance of two identifiers.
RECURSIVE Xor(_, _)
Xor(a, b) ==
    IF a = 0 /\ b = 0 THEN 0
    ELSE (((a % 2) + (b % 2)) % 2) + (2 * Xor(a \div 2, b \div 2))

\* min([...]) of a non-empty set of integers.
Min(S) == CHOOSE x \in S : \A y \in S : x <= y

SeqToSet(s) == { s[i] : i \in 1 .. Len(s) }

\* [x for x in s if low <= x < high], order kept.
RECURSIVE FilterRange(_, _, _)
FilterRange(s, low, high) ==
    IF s = <<>> THEN <<>>
    ELSE IF low <= Head(s) /\ Head(s) < high
         THEN <<Head(s)>> \o FilterRange(Tail(s), low, high)
         ELSE FilterRange(Tail(s), low, high)

\* s without every occurrence of x, order kept.
RECURSIVE Without(_, _)
Without(s, x) ==
    IF s = <<>> THEN <<>>
    ELSE IF Head(s) = x THEN Without(Tail(s), x)
         ELSE <<Head(s)>> \o Without(Tail(s), x)

\* The first n elements of s: s[:n].
Take(s, n) == SubSeq(s, 1, IF Len(s) < n THEN Len(s) ELSE n)

\* sorted(S, key=lambda c: c ^ key): ascending XOR distance to key.
RECURSIVE SortByDistance(_, _)
SortByDistance(S, key) ==
    IF S = {} THEN <<>>
    ELSE LET c == CHOOSE x \in S : \A y \in S : Xor(x, key) <= Xor(y, key)
         IN  <<c>> \o SortByDistance(S \ {c}, key)

\* ------------------------------------------------------- volatile storage

Values == {"a", "b"}
Expirations == {0, EXPIRATION_TIME_SEC \div 2}

EmptyStore == [k \in {} |-> 0]

\* datetime.isoformat() and datetime.fromisoformat(): a timestamp is kept as
\* its ISO string.
IsoFormat(t) == << "iso", t >>
FromIsoFormat(str) == str[2]

\* StoreValue(value, expiration_time, republish_timestamp=now.isoformat())
StoreValue(value, exp, t) ==
    [value |-> value, expiration_time |-> exp,
     republish_timestamp |-> IsoFormat(t)]

VContains(s, key) == key \in DOMAIN s
VGet(s, key) == s[key].value
VGetKeys(s) == DOMAIN s
VSet(s, key, value, exp, t) ==
    [k \in (DOMAIN s) \cup {key} |->
        IF k = key THEN StoreValue(value, exp, t) ELSE s[k]]
VRemove(s, key) == [k \in (DOMAIN s) \ {key} |-> s[k]]
VTouch(s, key, t) == [s EXCEPT ![key].republish_timestamp = IsoFormat(t)]

\* What a call returns: a value, or the exception it raises.
Ok(val) == [ok |-> TRUE, err |-> "", val |-> val]
Raises(err) == [ok |-> FALSE, err |-> err, val |-> 0]
SameResult(a, b) ==
    /\ a.ok = b.ok
    /\ a.err = b.err
    /\ a.ok => a.val = b.val

\* The calls of VirtualStorage with what they return.
VContainsCall(s, key) == Ok(VContains(s, key))
VGetCall(s, key) ==
    IF key \in DOMAIN s THEN Ok(s[key].value) ELSE Raises("KeyError")
VGetTimestampCall(s, key) ==
    IF key \in DOMAIN s THEN Ok(FromIsoFormat(s[key].republish_timestamp))
    ELSE Raises("KeyError")
VGetExpirationCall(s, key) ==
    IF key \in DOMAIN s THEN Ok(s[key].expiration_time) ELSE Raises("KeyError")
VGetKeysCall(s) == Ok(VGetKeys(s))
VTouchCall(s, key) == IF key \in DOMAIN s THEN Ok(0) ELSE Raises("KeyError")
VTouchStore(s, key, t) == IF key \in DOMAIN s THEN VTouch(s, key, t) ELSE s
VTryGetValueCall(s, key) ==
    IF key \in DOMAIN s THEN Ok(<< TRUE, s[key].value >>) ELSE Ok(<< FALSE, "" >>)

\* ----------------------------------------------------- persistent storage
\* The backing file is either unparseable or a JSON object whose keys are
\* strings; data maps the number each key string spells to its StoreValue.
\* A dict in memory has keys of both kinds: the string "5" and the int 5 are
\* different keys.

StrKey(k) == << "str", k >>    \* str(key)
IntKey(k) == << "int", k >>    \* key, an int
KeyNumber(dk) == dk[2]         \* int(k) of a key of either kind

EmptyDict == [dk \in {} |-> 0]
FreshFile == [corrupt |-> FALSE, data |-> EmptyStore]     \* "{}"
CorruptFile == [corrupt |-> TRUE, data |-> EmptyStore]

\* json.load(f) of a parseable file: every key is a string.
JsonLoad(file) ==
    [dk \in { StrKey(k) : k \in DOMAIN file.data } |-> file.data[KeyNumber(dk)]]

\* try: json.load(f) except JSONDecodeError: {}
JsonLoadOrEmpty(file) == IF file.corrupt THEN EmptyDict ELSE JsonLoad(file)

\* json.dump(json_data, f): an int key is written as its string; of two keys
\* that spell the same string the later one, the int, is the one read back.
JsonDump(d) ==
    [corrupt |-> FALSE,
     data |-> [k \in { KeyNumber(dk) : dk \in DOMAIN d } |->
                 IF IntKey(k) \in DOMAIN d THEN d[IntKey(k)] ELSE d[StrKey(k)]]]

\* json_data.pop(dk, None)
DictPop(d, dk) == [x \in (DOMAIN d) \ {dk} |-> d[x]]
\* json_data[dk] = v
DictPut(d, dk, v) == [x \in (DOMAIN d) \cup {dk} |-> IF x = dk THEN v ELSE d[x]]

\* SecondaryJSONStorage.set: the dict it writes back.
JSetDict(d, key, value, exp, t) ==
    DictPut(DictPop(DictPop(d, IntKey(key)), StrKey(key)), IntKey(key),
            StoreValue(value, exp, t))
JSetFile(file, key, value, exp, t) ==
    JsonDump(JSetDict(JsonLoadOrEmpty(file), key, value, exp, t))
JSetCall(file, key) == Ok(0)

\* SecondaryJSONStorage.contains
JContainsCall(file, key) == Ok(StrKey(key) \in DOMAIN JsonLoadOrEmpty(file))

\* SecondaryJSONStorage.get: json.load is not guarded here.
JGetCall(file, key) ==
    IF file.corrupt THEN Raises("JSONDecodeError")
    ELSE IF StrKey(key) \in DOMAIN JsonLoad(file)
    THEN Ok(JsonLoad(file)[StrKey(key)].value)
    ELSE Raises("KeyError")

\* SecondaryJSONStorage.get_timestamp: json_data[key] with the int key.
JGetTimestampCall(file, key) ==
    LET d == JsonLoadOrEmpty(file)
    IN  IF IntKey(key) \in DOMAIN d
        THEN Ok(FromIsoFormat(d[IntKey(key)].republish_timestamp))
        ELSE Raises("KeyError")

\* SecondaryJSONStorage.get_expiration_time_sec: json_data[key], an int key.
JGetExpirationCall(file, key) ==
    LET d == JsonLoadOrEmpty(file)
    IN  IF IntKey(key) \in DOMAIN d THEN Ok(d[IntKey(key)].expiration_time)
        ELSE Raises("KeyError")

\* A remove that pops the int key, which a loaded dict never holds.
JRemoveDictIntKey(d, key) == DictPop(d, IntKey(key))

\* SecondaryJSONStorage.remove: the dict it writes back.
JRemoveDict(d, key) == DictPop(d, StrKey(key))
JRemoveFile(file, key) == JsonDump(JRemoveDict(JsonLoadOrEmpty(file), key))
JRemoveCall(file, key) == Ok(0)

\* SecondaryJSONStorage.get_keys
JGetKeysCall(file) == Ok({ KeyNumber(dk) : dk \in DOMAIN JsonLoadOrEmpty(file) })

\* SecondaryJSONStorage.touch: json_data[key] with the int key, then the dump.
JTouchCall(file, key) ==
    IF IntKey(key) \in DOMAIN JsonLoadOrEmpty(file) THEN Ok(0)
    ELSE Raises("KeyError")
JTouchFile(file, key, t) ==
    LET d == JsonLoadOrEmpty(file)
    IN  IF IntKey(key) \in DOMAIN d
        THEN JsonDump([d EXCEPT ![IntKey(key)].republish_timestamp = IsoFormat(t)])
        ELSE file

\* SecondaryJSONStorage.try_get_value
JTryGetValueCall(file, key) ==
    LET d == JsonLoadOrEmpty(file)
    IN  IF StrKey(key) \in DOMAIN d THEN Ok(<< TRUE, d[StrKey(key)].value >>)
        ELSE Ok(<< FALSE, "" >>)

\* ------------------------------------------------- KBucket and BucketList
\* A contact is its ID; a bucket keeps its contacts least-recently-seen first.

KBucket(low, high, contacts) ==
    [low |-> low, high |-> high, contacts |-> contacts]

\* BucketList(our_contact): one bucket over the whole ID space.
NewBucketList == << KBucket(0, IdCount, <<>>) >>

RECURSIVE Log2(_)
Log2(n) == IF n <= 1 THEN 0 ELSE 1 + Log2(n \div 2)

\* The length of the binary prefix shared by every ID of the bucket's range.
Depth(b) == IdBits - Log2(b.high - b.low)

GetKBucketIndex(bl, id) ==
    CHOOSE i \in 1 .. Len(bl) : bl[i].low <= id /\ id < bl[i].high

GetKBucket(bl, id) == bl[GetKBucketIndex(bl, id)]

\* BucketList.contacts(): the contacts of every bucket, in bucket order.
RECURSIVE Contacts(_)
Contacts(bl) ==
    IF bl = <<>> THEN <<>> ELSE Head(bl).contacts \o Contacts(Tail(bl))

ContactSet(bl) == SeqToSet(Contacts(bl))

ContactExists(bl, id) == id \in ContactSet(bl)

\* Up to K contacts, ascending by XOR distance to key, without exclude.
GetCloseContacts(bl, key, exclude) ==
    Take(SortByDistance(ContactSet(bl) \ {exclude}, key), K)

\* A rule that lets every full bucket split.
CanSplitAlways(owner, b) == TRUE

\* A rule that lets no bucket split.
CanSplitNever(owner, b) == FALSE

CanSplit(owner, b) ==
    \/ b.low <= owner /\ owner < b.high
    \/ Depth(b) % B # 0

\* A split that lists the upper half before the lower half.
SplitBucketUpperFirst(b) ==
    LET mid == (b.low + b.high) \div 2
    IN  << KBucket(mid, b.high, FilterRange(b.contacts, mid, b.high)),
           KBucket(b.low, mid, FilterRange(b.contacts, b.low, mid)) >>

\* A split that leaves every contact in the lower half.
SplitBucketKeepsContacts(b) ==
    LET mid == (b.low + b.high) \div 2
    IN  << KBucket(b.low, mid, b.contacts), KBucket(mid, b.high, <<>>) >>

SplitBucket(b) ==
    LET mid == (b.low + b.high) \div 2
    IN  << KBucket(b.low, mid, FilterRange(b.contacts, b.low, mid)),
           KBucket(mid, b.high, FilterRange(b.contacts, mid, b.high)) >>

\* bl with bucket i replaced by the buckets of parts.
ReplaceBucket(bl, i, parts) ==
    SubSeq(bl, 1, i - 1) \o parts \o SubSeq(bl, i + 1, Len(bl))

\* A touch that leaves a held contact where it is.
TouchContactInPlace(bl, c) == bl

\* c moved to the most-recently-seen end of its bucket, if it is held.
TouchContact(bl, c) ==
    LET i == GetKBucketIndex(bl, c)
    IN  IF c \in SeqToSet(bl[i].contacts)
        THEN [bl EXCEPT ![i].contacts = Append(Without(@, c), c)]
        ELSE bl

\* c taken out of its bucket.
RemoveContact(bl, c) ==
    [bl EXCEPT ![GetKBucketIndex(bl, c)].contacts = Without(@, c)]

\* Inserting c ends in a bucket that holds it or has room for it, after the
\* splits the insertion makes: c's bucket has room or can split.
RECURSIVE HasRoomOrSplits(_, _, _)
HasRoomOrSplits(owner, bl, c) ==
    LET i == GetKBucketIndex(bl, c)
        b == bl[i]
    IN  \/ c \in SeqToSet(b.contacts)
        \/ Len(b.contacts) < K
        \/ /\ CanSplit(owner, b)
           /\ HasRoomOrSplits(owner, ReplaceBucket(bl, i, SplitBucket(b)), c)

\* ------------------------------------------------------------ the network
\* Every ID is a peer with a Node; a net record is the state of all of them
\* while one handler runs:
\*   bucket_list, storage, cache_storage   per node (Node's fields)
\*   pending_contacts, eviction_count      per node (its DHT's fields)
\*   sent      the RPCs issued since the handler started, in order
\*   up        whether the RPCs issued by this handler are answered
\*   down      the peers that answer no RPC at all
\*   now       the wall clock
\*   overflow  a nested RPC was cut at depth MaxDepth
\*   err       the outermost handler raised (the request is answered with
\*             an error)

RpcMsg(op, from, to, key, value) ==
    [op |-> op, from |-> from, to |-> to, key |-> key, value |-> value]

\* DHT.handle_error for a timeout of contact at node n: count it and, at the
\* limit, evict the contact and promote a pending contact of that bucket.
\* The failures a DHT has counted: a dict from contact to count, with no
\* entry for a contact that has none.
NoEvictions == [c \in {} |-> 0]
EvictionCount(ec, c) == IF c \in DOMAIN ec THEN ec[c] ELSE 0
SetEvictionCount(ec, c, v) ==
    IF v = 0 THEN [x \in (DOMAIN ec) \ {c} |-> ec[x]]
    ELSE [x \in (DOMAIN ec) \cup {c} |-> IF x = c THEN v ELSE ec[x]]

\* Whether an RPC to peer c comes back with a reply.
Responds(net, c) == net.up /\ c \notin net.down

HandleError(net, n, contact) ==
    LET cnt == EvictionCount(net.eviction_count[n], contact) + 1
        bl == net.bucket_list[n]
        i == GetKBucketIndex(bl, contact)
        bl1 == RemoveContact(bl, contact)
        repl == FilterRange(net.pending_contacts[n], bl[i].low, bl[i].high)
    IN  IF cnt < EvictionLimit
        THEN [net EXCEPT !.eviction_count[n] = SetEvictionCount(@, contact, cnt)]
        ELSE IF repl # <<>> /\ Len(bl1[i].contacts) < K
        THEN [net EXCEPT !.eviction_count[n] = SetEvictionCount(@, contact, 0),
                         !.bucket_list[n] =
                             [bl1 EXCEPT ![i].contacts = Append(@, Head(repl))],
                         !.pending_contacts[n] = Without(@, Head(repl))]
        ELSE [net EXCEPT !.eviction_count[n] = SetEvictionCount(@, contact, 0),
                         !.bucket_list[n] = bl1]

\* Node._is_new_contact
IsNewContact(net, n, sender) ==
    ~ ( \/ ContactExists(net.bucket_list[n], sender)
        \/ sender \in SeqToSet(net.pending_contacts[n]) )

RECURSIVE AddContact(_, _, _, _)
RECURSIVE NodePing(_, _, _, _)
RECURSIVE NodeStore(_, _, _, _, _, _, _, _)
RECURSIVE ProtocolStore(_, _, _, _, _, _)
RECURSIVE SendKeys(_, _, _, _, _, _)
RECURSIVE SendKeyValuesIfNewContact(_, _, _, _)

\* Variants of the handlers that the claims must tell from the handlers.
\* Node.ping without the check of the sender.
NodePingNoSelfCheck(net, n, sender, d) ==
    AddContact(SendKeyValuesIfNewContact(net, n, sender, d), n, sender, d)

\* Node.store that writes every binding to primary storage.
NodeStoreAlwaysPrimary(net, n, key, sender, val, is_cached, exp, d) ==
    IF sender = n THEN [net EXCEPT !.err = TRUE]
    ELSE LET added == AddContact(net, n, sender, d)
             told == SendKeyValuesIfNewContact(added, n, sender, d)
         IN  [told EXCEPT !.storage[n] =
                              VSet(@, key, val, EXPIRATION_TIME_SEC, told.now)]

\* Node.store that gives a cached binding the default expiration.
NodeStoreCachedDefaultExpiration(net, n, key, sender, val, is_cached, exp, d) ==
    IF sender = n THEN [net EXCEPT !.err = TRUE]
    ELSE LET added == AddContact(net, n, sender, d)
         IN  IF is_cached
             THEN [added EXCEPT !.cache_storage[n] =
                                    VSet(@, key, val, EXPIRATION_TIME_SEC, added.now)]
             ELSE LET told == SendKeyValuesIfNewContact(added, n, sender, d)
                  IN  [told EXCEPT !.storage[n] =
                                    VSet(@, key, val, EXPIRATION_TIME_SEC, told.now)]

\* Node.find_node that does not leave the sender out.
FindNodeResultWithSender(net, n, key, sender) ==
    [contacts |-> GetCloseContacts(net.bucket_list[n], key, n),
     has_contacts |-> TRUE, val |-> "", has_val |-> FALSE]

\* Node.find_value that looks into cache storage first.
FindValueResultCacheFirst(net, n, key, sender) ==
    IF VContains(net.cache_storage[n], key)
    THEN [contacts |-> <<>>, has_contacts |-> FALSE,
          val |-> VGet(net.cache_storage[n], key), has_val |-> TRUE]
    ELSE IF VContains(net.storage[n], key)
    THEN [contacts |-> <<>>, has_contacts |-> FALSE,
          val |-> VGet(net.storage[n], key), has_val |-> TRUE]
    ELSE [contacts |-> GetCloseContacts(net.bucket_list[n], key, sender),
          has_contacts |-> TRUE, val |-> "", has_val |-> FALSE]

\* BucketList.add_contact(c) at node n (the insertion discipline).
AddContact(net, n, c, d) ==
    LET bl == net.bucket_list[n]
        i == GetKBucketIndex(bl, c)
        b == bl[i]
        lrs == Head(b.contacts)
        pinged == [net EXCEPT !.sent = Append(@, RpcMsg("PING", n, lrs, 0, ""))]
    IN  IF c \in SeqToSet(b.contacts)
        THEN [net EXCEPT !.bucket_list[n] = TouchContact(bl, c)]
        ELSE IF Len(b.contacts) < K
        THEN [net EXCEPT !.bucket_list[n][i].contacts = Append(@, c)]
        ELSE IF CanSplit(n, b)
        THEN AddContact(
                 [net EXCEPT !.bucket_list[n] = ReplaceBucket(bl, i, SplitBucket(b))],
                 n, c, d)
        ELSE IF ~Responds(net, lrs)
        THEN [pinged EXCEPT !.bucket_list[n][i].contacts = Append(Tail(@), c)]
        ELSE IF d = 0
        THEN [pinged EXCEPT !.overflow = TRUE,
                            !.bucket_list[n] = TouchContact(bl, lrs)]
        ELSE LET answered == NodePing(pinged, lrs, n, d - 1)
             IN  [answered EXCEPT !.bucket_list[n] = TouchContact(@, lrs)]

\* Node.ping(sender) at node n.
NodePing(net, n, sender, d) ==
    IF sender = n THEN [net EXCEPT !.err = TRUE]
    ELSE AddContact(SendKeyValuesIfNewContact(net, n, sender, d), n, sender, d)

\* Node.store(key, sender, val, is_cached, expiration_time_sec) at node n.
NodeStore(net, n, key, sender, val, is_cached, exp, d) ==
    IF sender = n THEN [net EXCEPT !.err = TRUE]
    ELSE LET added == AddContact(net, n, sender, d)
         IN  IF is_cached
             THEN [added EXCEPT !.cache_storage[n] =
                                    VSet(@, key, val, exp, added.now)]
             ELSE LET told == SendKeyValuesIfNewContact(added, n, sender, d)
                  IN  [told EXCEPT !.storage[n] =
                                    VSet(@, key, val, EXPIRATION_TIME_SEC, told.now)]

\* sender.protocol.store(sender=our_contact, key, val) issued by node from.
ProtocolStore(net, from, to, key, val, d) ==
    LET issued == [net EXCEPT !.sent = Append(@, RpcMsg("STORE", from, to, key, val))]
    IN  IF ~Responds(net, to) THEN HandleError(issued, from, to)
        ELSE IF d = 0 THEN [issued EXCEPT !.overflow = TRUE]
        ELSE NodeStore(issued, to, key, from, val, FALSE, 0, d - 1)

\* The loop of send_key_values_if_new_contact over storage.get_keys().
SendKeys(net, n, sender, keys, contacts, d) ==
    IF keys = {} THEN net
    ELSE LET k == Min(keys)
             distance == Min({ Xor(c, k) : c \in contacts })
             next == IF Xor(n, k) < distance
                     THEN ProtocolStore(net, n, sender, k,
                                        VGet(net.storage[n], k), d)
                     ELSE net
         IN  SendKeys(next, n, sender, keys \ {k}, contacts, d)

\* Node.send_key_values_if_new_contact(sender) at node n.
SendKeyValuesIfNewContact(net, n, sender, d) ==
    IF IsNewContact(net, n, sender)
    THEN LET contacts == ContactSet(net.bucket_list[n])
         IN  IF Cardinality(contacts) > 0
             THEN SendKeys(net, n, sender, VGetKeys(net.storage[n]), contacts, d)
             ELSE net
    ELSE net

\* Node.find_node(key, sender) at node n: the state after it.
NodeFindNode(net, n, key, sender, d) ==
    IF sender = n THEN [net EXCEPT !.err = TRUE]
    ELSE AddContact(SendKeyValuesIfNewContact(net, n, sender, d), n, sender, d)

\* Node.find_value(key, sender) at node n: the state after it.
NodeFindValue(net, n, key, sender, d) ==
    IF sender = n THEN [net EXCEPT !.err = TRUE]
    ELSE SendKeyValuesIfNewContact(net, n, sender, d)

\* What find_node returns: (contacts, None).
FindNodeResult(net, n, key, sender) ==
    [contacts |-> GetCloseContacts(net.bucket_list[n], key, sender),
     has_contacts |-> TRUE, val |-> "", has_val |-> FALSE]

\* What find_value returns: (None, value) or (contacts, None).
FindValueResult(net, n, key, sender) ==
    IF VContains(net.storage[n], key)
    THEN [contacts |-> <<>>, has_contacts |-> FALSE,
          val |-> VGet(net.storage[n], key), has_val |-> TRUE]
    ELSE IF VContains(net.cache_storage[n], key)
    THEN [contacts |-> <<>>, has_contacts |-> FALSE,
          val |-> VGet(net.cache_storage[n], key), has_val |-> TRUE]
    ELSE [contacts |-> GetCloseContacts(net.bucket_list[n], key, sender),
          has_contacts |-> TRUE, val |-> "", has_val |-> FALSE]

NoResult == [contacts |-> <<>>, has_contacts |-> FALSE, val |-> "", has_val |-> FALSE]

\* ------------------------------------------------------------------ state

VARIABLES
    bucket_list,        \* node -> its BucketList
    storage,            \* node -> its primary storage (a VirtualStorage)
    cache_storage,      \* node -> its cache storage (a VirtualStorage)
    pending_contacts,   \* node -> its DHT's queue of pending contacts
    eviction_count,     \* node -> contact -> failures counted by its DHT
    now,                \* the wall clock
    sent,               \* RPCs issued by the handler of the last step
    last,               \* the last request handled and what it returned
    steps,              \* requests handled so far
    server,             \* the node whose server receives the requests
    vstore,             \* a VirtualStorage: its _store dict
    jfile,              \* a SecondaryJSONStorage: the content of its file
    damaged,            \* the file was unparseable when the storage was built
    expect,             \* key -> what the last set or remove of it asked for
    sres,               \* the last storage call and what both storages returned
    lock,               \* the thread that holds the storage's lock
    thr,                \* thread -> the call it is in and where it stands
    hist,               \* the calls made and the calls that returned
    router,             \* the server's Router: closer_contacts, further_contacts
    originator_storage, \* the originator storage of the server's DHT
    DEBUG,              \* the flag DEBUG of kademlia.main
    dres,               \* the last call on the DHT or its router, and its result
    lookup,             \* a Router.lookup under way: where it stands, its locals
    par                 \* the server's ParallelRouter, its workers, its lookup

nodeVars == << bucket_list, storage, cache_storage, pending_contacts,
               eviction_count, now, sent, last, steps, server >>
storVars == << vstore, jfile, damaged, expect, sres >>
concVars == << lock, thr, hist >>

dhtVars == << router, originator_storage, DEBUG, dres, lookup, par >>

vars == << nodeVars, storVars, concVars, dhtVars >>

\* The keys of the storage calls, and the threads that make them.
StorKeys == 0 .. MaxKey
Threads == {"t1", "t2"}
NoThread == "none"

NoCall == [op |-> "none", key |-> 0, v |-> Ok(0), j |-> Ok(0), corrupt |-> FALSE]
Unset == [state |-> "unset", value |-> ""]
IdleThread == [pc |-> "idle", op |-> "none", key |-> 0, value |-> "",
               data |-> EmptyDict, ret |-> Ok(0), calls |-> 0]

StorIdle ==
    /\ vstore = EmptyStore
    /\ jfile = FreshFile
    /\ damaged = FALSE
    /\ expect = [k \in StorKeys |-> Unset]
    /\ sres = NoCall

ConcIdle ==
    /\ lock = NoThread
    /\ thr = [t \in Threads |-> IdleThread]
    /\ hist = [called |-> {}, returned |-> {}]

\* Router(node): both lists empty.
NewRouter == [closer_contacts |-> <<>>, further_contacts |-> <<>>]

NoContact == 0 - 1      \* None where a Contact is expected

\* No call on the DHT: what dres holds between calls.
NoDht ==
    [op |-> "none", key |-> 0, value |-> "", found |-> FALSE,
     contacts |-> <<>>, found_by |-> NoContact, val |-> "", rpcs |-> <<>>,
     reported |-> <<>>, planned |-> <<>>, closer_contacts |-> <<>>,
     initial |-> <<>>, down |-> {}, stored_to |-> <<>>, aborted |-> FALSE,
     pre_storage |-> [n \in Ids |-> EmptyStore],
     pre_cache_storage |-> [n \in Ids |-> EmptyStore],
     pre_originator_storage |-> EmptyStore,
     pre_eviction_count |-> NoEvictions, pre_contacts |-> <<>>]

\* No Router.lookup under way: what lookup holds between lookups.
NoLookup ==
    [pc |-> "idle", key |-> 0, rpc_call |-> "none", down |-> {},
     all_nodes |-> <<>>, nodes_to_query |-> <<>>, contacted_nodes |-> <<>>,
     ret |-> <<>>, have_work |-> TRUE, found |-> FALSE,
     found_by |-> NoContact, val |-> "", contacts |-> <<>>, rpcs |-> <<>>,
     reported |-> <<>>, planned |-> <<>>, aborted |-> FALSE,
     iterations |-> 0, pre_contacted |-> <<>>, pre_rpcs |-> 0,
     pre_router |-> NewRouter]

MAX_THREADS == 2    \* Constants.MAX_THREADS, the workers of a ParallelRouter
Workers == 1 .. MAX_THREADS

\* FindResult(): nothing found. aliased says that found_contacts is the
\* list closer_contacts of the lookup.
NewFindResult ==
    [found |-> FALSE, found_by |-> NoContact, found_value |-> "",
     found_contacts |-> <<>>, aliased |-> FALSE]

\* What ParallelRouter.lookup returned: nothing yet, None, or the tuple of
\* parallel_found.
NoReturn == [kind |-> "none", found |-> FALSE, contacts |-> <<>>,
             found_by |-> NoContact, val |-> ""]

\* rpc_caller at the top of its loop, with no item at hand.
IdleWorker == [pc |-> "acquire", key |-> 0, contact |-> NoContact,
               rpc_call |-> "none", lookup |-> 0, found_by |-> NoContact,
               val |-> "", has_val |-> FALSE]

\* ParallelRouter(node): an empty queue, a semaphore of 1, stop_work unset,
\* the workers started; no lookup under way.
NewParallel ==
    [contact_queue |-> <<>>, semaphore |-> 1, stop_work |-> FALSE,
     worker |-> [w \in Workers |-> IdleWorker],
     pc |-> "idle", key |-> 0, rpc_call |-> "none", lookups |-> 0,
     closer_contacts |-> <<>>, further_contacts |-> <<>>,
     contacted_nodes |-> <<>>, all_nodes |-> <<>>, ret |-> <<>>,
     find_result |-> NewFindResult, returned |-> NoReturn,
     serial |-> NoReturn, rpcs |-> <<>>, queued |-> <<>>, promoted |-> 0]

DhtIdle ==
    /\ router = NewRouter
    /\ originator_storage = EmptyStore
    /\ DEBUG = FALSE
    /\ dres = NoDht
    /\ lookup = NoLookup
    /\ par = NewParallel

\* The node that receives requests from outside is one of Targets; the
\* other peers are reached only by the RPCs it issues.
Targets == {5}
\* The peers that send it requests, and the keys they name.
Senders == {0, 1, 2, 4, 5}
Keys == {1, 6}

\* No request: what last holds between requests.
NoRequest ==
    [op |-> "NONE", node |-> 0, sender |-> 0, key |-> 0, value |-> "",
     is_cached |-> FALSE, exp |-> 0, err |-> FALSE, up |-> TRUE,
     ret |-> NoResult, pre_bucket_list |-> NewBucketList,
     pre_storage |-> EmptyStore, pre_cache_storage |-> EmptyStore,
     pre_pending_contacts |-> <<>>]

\* A request as node n handled it: its arguments, whether it was answered
\* with an error, what it returned, and the node's state when it arrived.
Request(op, n, sender, key, value, is_cached, exp, net, ret) ==
    [op |-> op, node |-> n, sender |-> sender, key |-> key, value |-> value,
     is_cached |-> is_cached, exp |-> exp, err |-> net.err, up |-> net.up,
     ret |-> IF net.err THEN NoResult ELSE ret,
     pre_bucket_list |-> bucket_list[n], pre_storage |-> storage[n],
     pre_cache_storage |-> cache_storage[n],
     pre_pending_contacts |-> pending_contacts[n]]

NodeInit ==
    /\ bucket_list = [n \in Ids |-> NewBucketList]
    /\ storage = [n \in Ids |-> EmptyStore]
    /\ cache_storage = [n \in Ids |-> EmptyStore]
    /\ pending_contacts = [n \in Ids |-> <<>>]
    /\ eviction_count = [n \in Ids |-> NoEvictions]
    /\ now = 0
    /\ sent = <<>>
    /\ last = NoRequest
    /\ steps = 0
    /\ server \in Targets

\* The state of the network as a handler finds it.
Net(up) ==
    [bucket_list |-> bucket_list, storage |-> storage,
     cache_storage |-> cache_storage, pending_contacts |-> pending_contacts,
     eviction_count |-> eviction_count, sent |-> <<>>, up |-> up,
     down |-> {}, now |-> now, overflow |-> FALSE, err |-> FALSE]

\* The state the handler leaves.
Commit(net) ==
    /\ last.op = "NONE"
    /\ ~net.overflow
    /\ net.up \/ net.sent # <<>>
    /\ bucket_list' = net.bucket_list
    /\ storage' = net.storage
    /\ cache_storage' = net.cache_storage
    /\ pending_contacts' = net.pending_contacts
    /\ eviction_count' = net.eviction_count
    /\ sent' = net.sent
    /\ steps' = steps + 1
    /\ UNCHANGED << now, server, storVars, concVars, dhtVars >>

\* Node n handles PING from sender.
RecvPing(n, sender, up) ==
    /\ steps < MaxSteps
    /\ LET net == NodePing(Net(up), n, sender, MaxDepth)
       IN  /\ Commit(net)
           /\ last' = Request("PING", n, sender, 0, "", FALSE, 0, net, NoResult)

\* Node n handles STORE from sender.
RecvStore(n, sender, key, val, is_cached, exp, up) ==
    /\ steps < MaxSteps
    /\ LET net == NodeStore(Net(up), n, key, sender, val, is_cached, exp, MaxDepth)
       IN  /\ Commit(net)
           /\ last' = Request("STORE", n, sender, key, val, is_cached, exp, net,
                              NoResult)

\* Node n handles FIND_NODE from sender.
RecvFindNode(n, sender, key, up) ==
    /\ steps < MaxSteps
    /\ LET net == NodeFindNode(Net(up), n, key, sender, MaxDepth)
       IN  /\ Commit(net)
           /\ last' = Request("FIND_NODE", n, sender, key, "", FALSE, 0, net,
                              FindNodeResult(net, n, key, sender))

\* Node n handles FIND_VALUE from sender.
RecvFindValue(n, sender, key, up) ==
    /\ steps < MaxSteps
    /\ LET net == NodeFindValue(Net(up), n, key, sender, MaxDepth)
       IN  /\ Commit(net)
           /\ last' = Request("FIND_VALUE", n, sender, key, "", FALSE, 0, net,
                              FindValueResult(net, n, key, sender))

\* The DHT of node n queues contact c as a pending replacement.
AddToPending(n, c) ==
    /\ steps < MaxSteps
    /\ last.op = "NONE"
    /\ c # n
    /\ ~ContactExists(bucket_list[n], c)
    /\ c \notin SeqToSet(pending_contacts[n])
    /\ pending_contacts' = [pending_contacts EXCEPT ![n] = Append(@, c)]
    /\ steps' = steps + 1
    /\ sent' = <<>>
    /\ last' = NoRequest
    /\ UNCHANGED << bucket_list, storage, cache_storage, eviction_count, now,
                    server, storVars, concVars, dhtVars >>

\* The reply of the last request has gone back to its caller.
Reply ==
    /\ last.op # "NONE"
    /\ last' = NoRequest
    /\ sent' = <<>>
    /\ UNCHANGED << bucket_list, storage, cache_storage, pending_contacts,
                    eviction_count, now, steps, server, storVars, concVars,
                    dhtVars >>

\* The wall clock advances.
Tick ==
    /\ last.op = "NONE"
    /\ now < MaxClock
    /\ now' = now + 1
    /\ UNCHANGED << bucket_list, storage, cache_storage, pending_contacts,
                    eviction_count, sent, last, steps, server, storVars,
                    concVars, dhtVars >>

Init == NodeInit /\ StorIdle /\ ConcIdle /\ DhtIdle

Next ==
    \/ \E n \in {server}, s \in Senders, up \in BOOLEAN : RecvPing(n, s, up)
    \/ \E n \in {server}, s \in Senders, k \in Keys, v \in Values,
          c \in BOOLEAN, e \in Expirations, up \in BOOLEAN :
              (c \/ e = 0) /\ RecvStore(n, s, k, v, c, e, up)
    \/ \E n \in {server}, s \in Senders, k \in Keys, up \in BOOLEAN :
              RecvFindNode(n, s, k, up)
    \/ \E n \in {server}, s \in Senders, k \in Keys, up \in BOOLEAN :
              RecvFindValue(n, s, k, up)
    \/ \E n \in {server}, c \in Senders : AddToPending(n, c)
    \/ Reply

Spec == Init /\ [][Next]_vars

\* ------------------------------------------- FIND_NODE on populated tables
\* SpecFind starts from the routing tables that inserting up to MaxContacts
\* contacts into a fresh BucketList produces, and handles one FIND_NODE.

NetInit ==
    [bucket_list |-> [n \in Ids |-> NewBucketList],
     storage |-> [n \in Ids |-> EmptyStore],
     cache_storage |-> [n \in Ids |-> EmptyStore],
     pending_contacts |-> [n \in Ids |-> <<>>],
     eviction_count |-> [n \in Ids |-> NoEvictions],
     sent |-> <<>>, up |-> TRUE, down |-> {}, now |-> 0, overflow |-> FALSE,
     err |-> FALSE]

\* for c in sorted(S): bucket_list.add_contact(c), at node n.
RECURSIVE InsertAll(_, _, _)
InsertAll(net, n, S) ==
    IF S = {} THEN net
    ELSE InsertAll(AddContact(net, n, Min(S), MaxDepth), n, S \ {Min(S)})

\* The peers a table is populated with.
FindContacts == (0 .. 8) \ Targets

InitFind ==
    /\ server \in Targets
    /\ \E S \in SUBSET FindContacts :
          /\ Cardinality(S) <= MaxContacts
          /\ LET net == InsertAll(NetInit, server, S)
             IN  /\ ~net.overflow
                 /\ bucket_list = net.bucket_list
                 /\ storage = net.storage
                 /\ cache_storage = net.cache_storage
                 /\ pending_contacts = net.pending_contacts
                 /\ eviction_count = net.eviction_count
    /\ now = 0
    /\ sent = <<>>
    /\ last = NoRequest
    /\ steps = 0
    /\ StorIdle
    /\ ConcIdle
    /\ DhtIdle

NextFind ==
    \/ \E s \in Senders, k \in Ids, up \in BOOLEAN :
          steps = 0 /\ RecvFindNode(server, s, k, up)
    \/ Reply

SpecFind == InitFind /\ [][NextFind]_vars

\* ------------------------------------------ key propagation between peers
\* SpecChain starts from a server and a peer that do not know each other:
\* each knows up to K peers of the range the other lies in, and each may
\* hold bindings of its own. The peer then sends the server one RPC.

\* The peers that send the server the RPC.
ChainPeers == {2}
ChainServerKnows == {0, 1}
ChainPeerKnows == {4, 6}

\* simply_store(key, val) for each key of H at node n.
Holding(H) ==
    [k \in H |-> StoreValue("a", EXPIRATION_TIME_SEC, 0)]

InitChain ==
    /\ server \in Targets
    /\ \E p \in ChainPeers,
          S \in SUBSET ChainServerKnows, T \in SUBSET ChainPeerKnows,
          HS \in SUBSET Keys, HP \in SUBSET Keys :
          /\ LET net == InsertAll(InsertAll(NetInit, server, S), p, T)
             IN  /\ bucket_list = net.bucket_list
                 /\ pending_contacts = net.pending_contacts
                 /\ eviction_count = net.eviction_count
          /\ storage = [n \in Ids |-> IF n = server THEN Holding(HS)
                                      ELSE IF n = p THEN Holding(HP)
                                      ELSE EmptyStore]
    /\ cache_storage = [n \in Ids |-> EmptyStore]
    /\ now = 0
    /\ sent = <<>>
    /\ last = NoRequest
    /\ steps = 0
    /\ StorIdle
    /\ ConcIdle
    /\ DhtIdle

\* The state node n is left in by the handler of op, nested RPCs followed
\* to depth d.
Handled(op, n, sender, key, d) ==
    CASE op = "PING" -> NodePing(Net(TRUE), n, sender, d)
      [] op = "STORE" -> NodeStore(Net(TRUE), n, key, sender, "b", FALSE, 0, d)
      [] op = "FIND_NODE" -> NodeFindNode(Net(TRUE), n, key, sender, d)
      [] op = "FIND_VALUE" -> NodeFindValue(Net(TRUE), n, key, sender, d)

\* Node n handles an RPC whose nested RPCs go deeper than MaxDepth: the
\* handler has not returned, and it is followed no further.
HandlerNestsOn(op, n, sender, key) ==
    /\ last.op = "NONE"
    /\ steps = 0
    /\ Handled(op, n, sender, key, MaxDepth).overflow
    /\ last' = [NoRequest EXCEPT !.op = "NESTING", !.node = n,
                                 !.sender = sender, !.key = key]
    /\ steps' = MaxSteps
    /\ UNCHANGED << bucket_list, storage, cache_storage, pending_contacts,
                    eviction_count, now, sent, server, storVars, concVars,
                    dhtVars >>

NextChain ==
    \/ \E p \in ChainPeers : steps = 0 /\ RecvPing(server, p, TRUE)
    \/ \E p \in ChainPeers, k \in Keys :
          steps = 0 /\ RecvStore(server, p, k, "b", FALSE, 0, TRUE)
    \/ \E p \in ChainPeers, k \in Keys :
          steps = 0 /\ RecvFindNode(server, p, k, TRUE)
    \/ \E p \in ChainPeers, k \in Keys :
          steps = 0 /\ RecvFindValue(server, p, k, TRUE)
    \/ \E p \in ChainPeers, k \in Keys,
          op \in {"PING", "STORE", "FIND_NODE", "FIND_VALUE"} :
          HandlerNestsOn(op, server, p, k)
    \/ Reply

SpecChain == InitChain /\ [][NextChain]_vars

\* ------------------------------------------------- the two storages alike
\* SpecStorage makes every call on a VirtualStorage and on a
\* SecondaryJSONStorage at once and keeps what each returned.

StorCall(op, key, v, j) ==
    [op |-> op, key |-> key, v |-> v, j |-> j, corrupt |-> jfile.corrupt]

\* A call starts when the one before it has returned.
StorFrame ==
    /\ sres.op = "none"
    /\ UNCHANGED << nodeVars, damaged, concVars, dhtVars >>

\* set(key, value, expiration_time_sec)
StorageSet(key, value, exp) ==
    /\ vstore' = VSet(vstore, key, value, exp, now)
    /\ jfile' = JSetFile(jfile, key, value, exp, now)
    /\ expect' = [expect EXCEPT ![key] = [state |-> "set", value |-> value]]
    /\ sres' = StorCall("set", key, Ok(0), JSetCall(jfile, key))
    /\ StorFrame

\* remove(key)
StorageRemove(key) ==
    /\ vstore' = VRemove(vstore, key)
    /\ jfile' = JRemoveFile(jfile, key)
    /\ expect' = [expect EXCEPT ![key] = [state |-> "removed", value |-> ""]]
    /\ sres' = StorCall("remove", key, Ok(0), JRemoveCall(jfile, key))
    /\ StorFrame

\* touch(key)
StorageTouch(key) ==
    /\ vstore' = VTouchStore(vstore, key, now)
    /\ jfile' = JTouchFile(jfile, key, now)
    /\ sres' = StorCall("touch", key, VTouchCall(vstore, key),
                        JTouchCall(jfile, key))
    /\ UNCHANGED expect
    /\ StorFrame

\* A call that only reads: v and j are what the two storages return.
StorageRead(op, key, v, j) ==
    /\ sres' = StorCall(op, key, v, j)
    /\ UNCHANGED << vstore, jfile, expect >>
    /\ StorFrame

StorageContains(key) ==
    StorageRead("contains", key, VContainsCall(vstore, key),
                JContainsCall(jfile, key))
StorageGet(key) ==
    StorageRead("get", key, VGetCall(vstore, key), JGetCall(jfile, key))
StorageGetKeys ==
    StorageRead("get_keys", 0, VGetKeysCall(vstore), JGetKeysCall(jfile))
StorageGetTimestamp(key) ==
    StorageRead("get_timestamp", key, VGetTimestampCall(vstore, key),
                JGetTimestampCall(jfile, key))
StorageGetExpiration(key) ==
    StorageRead("get_expiration_time_sec", key, VGetExpirationCall(vstore, key),
                JGetExpirationCall(jfile, key))
StorageTryGetValue(key) ==
    StorageRead("try_get_value", key, VTryGetValueCall(vstore, key),
                JTryGetValueCall(jfile, key))

\* The last call has returned to its caller.
StorageReturn ==
    /\ sres.op # "none"
    /\ sres' = NoCall
    /\ UNCHANGED << nodeVars, vstore, jfile, damaged, expect, concVars,
                    dhtVars >>

InitStorage ==
    /\ NodeInit
    /\ ConcIdle
    /\ DhtIdle
    /\ vstore = EmptyStore
    /\ damaged \in BOOLEAN
    /\ jfile = (IF damaged THEN CorruptFile ELSE FreshFile)
    /\ expect = [k \in StorKeys |-> Unset]
    /\ sres = NoCall

NextStorage ==
    \/ \E k \in StorKeys, v \in Values, e \in Expirations :
          (v = "a" \/ e = 0) /\ StorageSet(k, v, e)
    \/ \E k \in StorKeys : StorageRemove(k)
    \/ \E k \in StorKeys : StorageTouch(k)
    \/ \E k \in StorKeys : StorageContains(k)
    \/ \E k \in StorKeys : StorageGet(k)
    \/ StorageGetKeys
    \/ \E k \in StorKeys : StorageGetTimestamp(k)
    \/ \E k \in StorKeys : StorageGetExpiration(k)
    \/ \E k \in StorKeys : StorageTryGetValue(k)
    \/ StorageReturn
    \/ Tick

SpecStorage == InitStorage /\ [][NextStorage]_vars

\* ------------------------------------- threads on one persistent storage
\* SpecConc runs the calls of SecondaryJSONStorage by several threads, one
\* step for each access to the lock or to the file. open(filename, "w")
\* empties the file, json.dump then writes it.

TruncatedFile == CorruptFile    \* an empty file does not parse

\* The file after json.dump(d, f) by a thread that emptied it earlier: when
\* another thread wrote a longer text in between, its tail is left behind.
DumpOver(file, d) ==
    IF ~file.corrupt /\ Cardinality(DOMAIN file.data) > Cardinality(DOMAIN d)
    THEN CorruptFile
    ELSE JsonDump(d)

ConcFrame == UNCHANGED << nodeVars, vstore, damaged, expect, sres, dhtVars >>

\* The calls that keep the lock until the file is written.
WritesUnderLock == {"set", "touch"}

\* Thread t calls op(key) on the storage.
ConcCall(t, op, key) ==
    /\ thr[t].pc = "idle"
    /\ thr[t].calls < MaxCalls
    /\ thr' = [thr EXCEPT ![t] = [@ EXCEPT !.pc = "lock", !.op = op,
                                            !.key = key, !.value = "a"]]
    /\ hist' = [hist EXCEPT !.called = @ \cup {<< op, key >>}]
    /\ UNCHANGED << lock, jfile >>
    /\ ConcFrame

\* with self.lock:
ConcAcquire(t) ==
    /\ thr[t].pc = "lock"
    /\ lock = NoThread
    /\ lock' = t
    /\ thr' = [thr EXCEPT ![t].pc = "read"]
    /\ UNCHANGED << hist, jfile >>
    /\ ConcFrame

\* The read of the file under the lock, and what the call does with the
\* dict up to its next access to the file; set and touch keep the lock.
ConcRead(t) ==
    /\ thr[t].pc = "read"
    /\ lock = t
    /\ LET c == thr[t]
           d == JsonLoadOrEmpty(jfile)
       IN  CASE c.op = "set" ->
                  /\ thr' = [thr EXCEPT ![t] = [@ EXCEPT
                               !.data = JSetDict(d, c.key, c.value, 0, now),
                               !.pc = "truncate"]]
                  /\ UNCHANGED lock
             [] c.op = "remove" ->
                  /\ thr' = [thr EXCEPT ![t] = [@ EXCEPT
                               !.data = JRemoveDict(d, c.key),
                               !.pc = "truncate"]]
                  /\ lock' = NoThread
             [] c.op = "touch" ->
                  IF IntKey(c.key) \in DOMAIN d
                  THEN /\ thr' = [thr EXCEPT ![t] = [@ EXCEPT
                                    !.data = [d EXCEPT ![IntKey(c.key)]
                                        .republish_timestamp = IsoFormat(now)],
                                    !.pc = "truncate"]]
                       /\ UNCHANGED lock
                  ELSE /\ thr' = [thr EXCEPT ![t] = [@ EXCEPT
                                    !.ret = Raises("KeyError"), !.pc = "done"]]
                       /\ lock' = NoThread
             [] c.op = "get" ->
                  /\ thr' = [thr EXCEPT ![t] = [@ EXCEPT
                               !.ret = JGetCall(jfile, c.key), !.pc = "done"]]
                  /\ lock' = NoThread
             [] c.op = "contains" ->
                  /\ thr' = [thr EXCEPT ![t] = [@ EXCEPT
                               !.ret = JContainsCall(jfile, c.key),
                               !.pc = "done"]]
                  /\ lock' = NoThread
    /\ UNCHANGED << hist, jfile >>
    /\ ConcFrame

\* open(self.filename, "w")
ConcTruncate(t) ==
    /\ thr[t].pc = "truncate"
    /\ jfile' = TruncatedFile
    /\ thr' = [thr EXCEPT ![t].pc = "dump"]
    /\ UNCHANGED << lock, hist >>
    /\ ConcFrame

\* json.dump(json_data, f), and the end of the call
ConcDump(t) ==
    /\ thr[t].pc = "dump"
    /\ jfile' = DumpOver(jfile, thr[t].data)
    /\ thr' = [thr EXCEPT ![t] = [@ EXCEPT !.ret = Ok(0), !.pc = "done"]]
    /\ lock' = (IF thr[t].op \in WritesUnderLock THEN NoThread ELSE lock)
    /\ UNCHANGED hist
    /\ ConcFrame

\* The call of thread t has returned.
ConcReturn(t) ==
    /\ thr[t].pc = "done"
    /\ thr' = [thr EXCEPT ![t] = [@ EXCEPT !.pc = "idle", !.calls = @ + 1]]
    /\ hist' = [hist EXCEPT
                   !.returned = @ \cup {<< thr[t].op, thr[t].key >>}]
    /\ UNCHANGED << lock, jfile >>
    /\ ConcFrame

InitConc == NodeInit /\ StorIdle /\ ConcIdle /\ DhtIdle

NextConc ==
    \/ \E t \in Threads, k \in StorKeys,
          op \in {"set", "remove", "touch", "get", "contains"} :
              ConcCall(t, op, k)
    \/ \E t \in Threads : ConcAcquire(t)
    \/ \E t \in Threads : ConcRead(t)
    \/ \E t \in Threads : ConcTruncate(t)
    \/ \E t \in Threads : ConcDump(t)
    \/ \E t \in Threads : ConcReturn(t)

SpecConc == InitConc /\ [][NextConc]_vars

\* ------------------------------------------------------ the serial Router
\* Router.lookup runs to its end in one step: the RPCs of a lookup are
\* blocking calls on the caller's thread. A lookup record lk holds what the
\* lookup has at hand:
\*   net                               the network (see above)
\*   closer_contacts, further_contacts the router's two lists
\*   contacted_nodes                   the local list of lookup
\*   found, found_by, val, contacts    the QueryReturn
\*   rpcs       the RPCs the router issued: the peer, whether it failed, and
\*              how many RPCs had been issued in all when it came back
\*   reported   the contacts handed to DHT.handle_error with an error
\*   planned    the nodes_to_query of every wave, in order
\*   aborted    an exception left the lookup

A == 1          \* Constants.A, the peers queried in one wave

\* s[n:]
Drop(s, n) == SubSeq(s, n + 1, Len(s))

\* for c in add: if c.id not in [i.id for i in s]: s.append(c)
RECURSIVE AppendNew(_, _)
AppendNew(s, add) ==
    IF add = <<>> THEN s
    ELSE AppendNew(IF Head(add) \in SeqToSet(s) THEN s ELSE Append(s, Head(add)),
                   Tail(add))

NewLookup(net, r) ==
    [net |-> net, closer_contacts |-> r.closer_contacts,
     further_contacts |-> r.further_contacts, contacted_nodes |-> <<>>,
     found |-> FALSE, found_by |-> NoContact, val |-> "", contacts |-> <<>>,
     rpcs |-> <<>>, reported |-> <<>>, planned |-> <<>>, aborted |-> FALSE]

\* What an RPC brings back to the router, as the router unpacks it.
RpcReturn(lk, contacts, found_by, val, has_val) ==
    [lk |-> lk, contacts |-> contacts, found_by |-> found_by, val |-> val,
     has_val |-> has_val]

\* contact.protocol.find_node(our_contact, key): (contacts, error).
ProtocolFindNode(net, us, contact, key) ==
    LET issued == [net EXCEPT !.sent =
                       Append(@, RpcMsg("FIND_NODE", us, contact, key, ""))]
        Replied(handled) ==
            [net |-> handled, error |-> FALSE,
             ret |-> FindNodeResult(handled, contact, key, us)]
    IN  IF ~Responds(net, contact)
        THEN [net |-> issued, ret |-> NoResult, error |-> TRUE]
        ELSE Replied(NodeFindNode(issued, contact, key, us, MaxDepth))

\* contact.protocol.find_value(our_contact, key): (contacts, val, error).
ProtocolFindValue(net, us, contact, key) ==
    LET issued == [net EXCEPT !.sent =
                       Append(@, RpcMsg("FIND_VALUE", us, contact, key, ""))]
        Replied(handled) ==
            [net |-> handled, error |-> FALSE,
             ret |-> FindValueResult(handled, contact, key, us)]
    IN  IF ~Responds(net, contact)
        THEN [net |-> issued, ret |-> NoResult, error |-> TRUE]
        ELSE Replied(NodeFindValue(issued, contact, key, us, MaxDepth))

\* The lookup after an RPC to contact came back as reply.
AfterRpc(lk, us, contact, reply) ==
    [lk EXCEPT !.net = IF reply.error
                       THEN HandleError(reply.net, us, contact)
                       ELSE reply.net,
               !.rpcs = Append(@, [to |-> contact, error |-> reply.error,
                                   replied_at |-> Len(reply.net.sent)]),
               !.reported = IF reply.error THEN Append(@, contact) ELSE @]

\* raise ValueCannotBeNoneError
RaiseValueCannotBeNone(lk) ==
    RpcReturn([lk EXCEPT !.aborted = TRUE], <<>>, NoContact, "", FALSE)

\* rpc_find_value that unpacks the reply without looking at its error.
RpcFindValueIgnoringError(lk, us, key, contact) ==
    LET Unpack(reply, l1) ==
            IF reply.ret.has_contacts
            THEN RpcReturn(l1, reply.ret.contacts, NoContact, "", FALSE)
            ELSE IF ~reply.ret.has_val THEN RaiseValueCannotBeNone(l1)
            ELSE RpcReturn(l1, <<contact>>, contact, reply.ret.val, TRUE)
        Returned(reply) == Unpack(reply, AfterRpc(lk, us, contact, reply))
    IN  Returned(ProtocolFindValue(lk.net, us, contact, key))

\* rpc_find_value that returns a value without the contact that had it.
RpcFindValueWithoutFoundBy(lk, us, key, contact) ==
    LET Unpack(reply, l1) ==
            IF reply.error THEN RpcReturn(l1, <<>>, NoContact, "", FALSE)
            ELSE IF reply.ret.has_contacts
            THEN RpcReturn(l1, reply.ret.contacts, NoContact, "", FALSE)
            ELSE RpcReturn(l1, <<contact>>, NoContact, reply.ret.val, TRUE)
        Returned(reply) == Unpack(reply, AfterRpc(lk, us, contact, reply))
    IN  Returned(ProtocolFindValue(lk.net, us, contact, key))

\* BaseRouter.rpc_find_nodes(key, contact)
RpcFindNodes(lk, us, key, contact) ==
    LET Returned(reply) ==
            RpcReturn(AfterRpc(lk, us, contact, reply), reply.ret.contacts,
                      NoContact, "", FALSE)
    IN  Returned(ProtocolFindNode(lk.net, us, contact, key))

\* BaseRouter.rpc_find_value(key, contact)
RpcFindValue(lk, us, key, contact) ==
    LET Unpack(reply, l1) ==
            IF reply.error THEN RpcReturn(l1, <<>>, NoContact, "", FALSE)
            ELSE IF reply.ret.has_contacts
            THEN RpcReturn(l1, reply.ret.contacts, NoContact, "", FALSE)
            ELSE IF ~reply.ret.has_val THEN RaiseValueCannotBeNone(l1)
            ELSE RpcReturn(l1, <<contact>>, contact, reply.ret.val, TRUE)
        Returned(reply) == Unpack(reply, AfterRpc(lk, us, contact, reply))
    IN  Returned(ProtocolFindValue(lk.net, us, contact, key))

\* rpc_call(key, node_to_query)
RpcCall(lk, us, key, contact, rpc_call) ==
    IF rpc_call = "rpc_find_nodes" THEN RpcFindNodes(lk, us, key, contact)
    ELSE RpcFindValue(lk, us, key, contact)

\* get_closer_nodes that compares a returned contact's distance to the key,
\* not its distance to the queried node.
GetCloserNodesByKeyDistance(lk, us, key, node_to_query, rpc_call) ==
    LET Sorted(r, l1) ==
            LET IsPeer(c) == /\ c # us
                             /\ c # node_to_query
                             /\ c \notin SeqToSet(l1.closer_contacts)
                             /\ c \notin SeqToSet(l1.further_contacts)
                peers_nodes == SelectSeq(r.contacts, IsPeer)
                nearest_node_distance == Xor(node_to_query, key)
                IsClose(p) == Xor(p, key) < nearest_node_distance
                IsFar(p) == Xor(p, key) >= nearest_node_distance
            IN  IF l1.aborted THEN l1
                ELSE
                [l1 EXCEPT !.closer_contacts =
                               AppendNew(@, SelectSeq(peers_nodes, IsClose)),
                           !.further_contacts =
                               AppendNew(@, SelectSeq(peers_nodes, IsFar)),
                           !.found = r.has_val,
                           !.found_by = r.found_by,
                           !.val = r.val]
        Returned(r) == Sorted(r, r.lk)
    IN  Returned(RpcCall(lk, us, key, node_to_query, rpc_call))

\* BaseRouter.get_closer_nodes
GetCloserNodes(lk, us, key, node_to_query, rpc_call) ==
    LET Sorted(r, l1) ==
            LET IsPeer(c) == /\ c # us
                             /\ c # node_to_query
                             /\ c \notin SeqToSet(l1.closer_contacts)
                             /\ c \notin SeqToSet(l1.further_contacts)
                peers_nodes == SelectSeq(r.contacts, IsPeer)
                nearest_node_distance == Xor(node_to_query, key)
                IsClose(p) == Xor(p, node_to_query) < nearest_node_distance
                IsFar(p) == Xor(p, node_to_query) >= nearest_node_distance
                close_peer_nodes == SelectSeq(peers_nodes, IsClose)
                far_peer_nodes == SelectSeq(peers_nodes, IsFar)
            IN  IF l1.aborted THEN l1
                ELSE
                [l1 EXCEPT !.closer_contacts = AppendNew(@, close_peer_nodes),
                           !.further_contacts = AppendNew(@, far_peer_nodes),
                           !.found = r.has_val,
                           !.found_by = r.found_by,
                           !.val = r.val]
        Returned(r) == Sorted(r, r.lk)
    IN  Returned(RpcCall(lk, us, key, node_to_query, rpc_call))

\* BaseRouter.query: the QueryReturn is lk's found, found_by, val, and
\* contacts is the list closer_contacts itself.
RECURSIVE Query(_, _, _, _, _)
Query(lk, us, key, nodes_to_query, rpc_call) ==
    LET Answered(l1) ==
            IF l1.aborted THEN l1
            ELSE IF l1.found THEN [l1 EXCEPT !.contacts = l1.closer_contacts]
            ELSE Query(l1, us, key, Tail(nodes_to_query), rpc_call)
    IN  IF nodes_to_query = <<>>
        THEN [lk EXCEPT !.contacts = lk.closer_contacts]
        ELSE Answered(GetCloserNodes(lk, us, key, Head(nodes_to_query), rpc_call))

\* The loop of Router.lookup, and its return when the loop ends; ret is
\* the list built before the loop.
RECURSIVE LookupWaves(_, _, _, _, _, _)
LookupWaves(lk, us, key, rpc_call, ret, have_work) ==
    IF ~(Len(ret) < K /\ have_work)
    THEN [lk EXCEPT !.found = FALSE, !.found_by = NoContact, !.val = "",
                    !.contacts = Take(SortByDistance(SeqToSet(ret), key), K)]
    ELSE LET NotContacted(i) == i \notin SeqToSet(lk.contacted_nodes)
             closer_uncontacted_nodes == SelectSeq(lk.closer_contacts, NotContacted)
             further_uncontacted_nodes == SelectSeq(lk.further_contacts, NotContacted)
             have_closer == Len(closer_uncontacted_nodes) > 0
             have_further == Len(further_uncontacted_nodes) > 0
             Wave(q) == IF q.found \/ q.aborted THEN q
                        ELSE LookupWaves(q, us, key, rpc_call, ret, TRUE)
         IN  IF have_closer
             THEN LET new_nodes_to_query == Take(closer_uncontacted_nodes, A)
                      l1 == [lk EXCEPT !.contacted_nodes =
                                           AppendNew(@, new_nodes_to_query),
                                       !.planned = @ \o new_nodes_to_query]
                  IN  Wave(Query(l1, us, key, new_nodes_to_query, rpc_call))
             ELSE IF have_further
             THEN LET new_nodes_to_query == Take(further_uncontacted_nodes, A)
                      l1 == [lk EXCEPT !.contacted_nodes =
                                           @ \o further_uncontacted_nodes,
                                       !.planned = @ \o new_nodes_to_query]
                  IN  Wave(Query(l1, us, key, new_nodes_to_query, rpc_call))
             ELSE LookupWaves(lk, us, key, rpc_call, ret, FALSE)

\* all_nodes of Router.lookup: the contacts the lookup starts from.
AllNodes(net, us, key, debug) ==
    IF debug
    THEN Take(GetKBucket(net.bucket_list[us], key).contacts, K)
    ELSE Take(GetCloseContacts(net.bucket_list[us], key, us), K)

\* Router.lookup(key, rpc_call) by the router r of node us.
Lookup(net, r, us, key, rpc_call, debug) ==
    LET all_nodes == AllNodes(net, us, key, debug)
        nodes_to_query == Take(all_nodes, A)
        IsCloser(n) == Xor(n, key) < Xor(us, key)
        IsFurther(n) == ~IsCloser(n)
        lk == NewLookup(net, r)
        l1 == [lk EXCEPT !.closer_contacts =
                             @ \o SelectSeq(nodes_to_query, IsCloser),
                         !.further_contacts =
                             @ \o SelectSeq(nodes_to_query, IsFurther)
                               \o Drop(all_nodes, A + 1),
                         !.contacted_nodes = AppendNew(@, nodes_to_query),
                         !.planned = nodes_to_query]
        Loop(query_result) ==
            IF query_result.found \/ query_result.aborted THEN query_result
            ELSE LookupWaves(query_result, us, key, rpc_call,
                             AppendNew(<<>>, query_result.closer_contacts), TRUE)
    IN  Loop(Query(l1, us, key, nodes_to_query, rpc_call))

\* ------------------------------------------------------------- the DHT
\* DHT.store and DHT.find_value of the server's DHT, on the router above.

\* contact.protocol.store(our_contact, key, val, is_cached=True, exp)
ProtocolStoreCached(net, from, to, key, val, exp) ==
    LET issued == [net EXCEPT !.sent = Append(@, RpcMsg("STORE", from, to, key, val))]
    IN  IF ~Responds(net, to) THEN HandleError(issued, from, to)
        ELSE NodeStore(issued, to, key, from, val, TRUE, exp, MaxDepth)

\* for c in contacts: c.protocol.store(our_contact, key, val)
RECURSIVE StoreOnContacts(_, _, _, _, _)
StoreOnContacts(net, us, contacts, key, val) ==
    IF contacts = <<>> THEN net
    ELSE StoreOnContacts(ProtocolStore(net, us, Head(contacts), key, val, MaxDepth),
                         us, Tail(contacts), key, val)

\* The contact a found value is cached on: the closest to the key of the
\* contacts of the lookup that are closer to it than the node that had it.
StoreTo(lk, key) ==
    SortByDistance({ c \in SeqToSet(lk.contacts) :
                       c # lk.found_by /\ Xor(c, key) < Xor(lk.found_by, key) },
                   key)

\* What the last call did, for the claims to read.
DhtResult(op, key, value, lk, down, stored_to, initial) ==
    [op |-> op, key |-> key, value |-> value, found |-> lk.found,
     contacts |-> lk.contacts, found_by |-> lk.found_by, val |-> lk.val,
     rpcs |-> lk.rpcs, reported |-> lk.reported, planned |-> lk.planned,
     closer_contacts |-> lk.closer_contacts, initial |-> initial,
     down |-> down, stored_to |-> stored_to, aborted |-> lk.aborted,
     pre_storage |-> storage, pre_cache_storage |-> cache_storage,
     pre_originator_storage |-> originator_storage,
     pre_eviction_count |-> eviction_count[server],
     pre_contacts |-> Contacts(bucket_list[server])]

\* The network as a call on the DHT finds it.
DhtNet(down) == [Net(TRUE) EXCEPT !.down = down]

\* The state a call on the DHT leaves.
DhtCommit(lk) ==
    /\ dres.op = "none"
    /\ ~lk.net.overflow
    /\ bucket_list' = lk.net.bucket_list
    /\ storage' = lk.net.storage
    /\ cache_storage' = lk.net.cache_storage
    /\ pending_contacts' = lk.net.pending_contacts
    /\ eviction_count' = lk.net.eviction_count
    /\ sent' = lk.net.sent
    /\ router' = [closer_contacts |-> lk.closer_contacts,
                  further_contacts |-> lk.further_contacts]
    /\ steps' = steps + 1
    /\ UNCHANGED << now, last, server, storVars, concVars, DEBUG, lookup, par >>

\* router.lookup(key, rpc_call) on the server's router.
RouterLookup(key, rpc_call, down) ==
    LET Returned(lk) ==
            /\ DhtCommit(lk)
            /\ dres' = DhtResult(rpc_call, key, "", lk, down, <<>>,
                                 AllNodes(DhtNet(down), server, key, DEBUG))
            /\ UNCHANGED originator_storage
    IN  Returned(Lookup(DhtNet(down), router, server, key, rpc_call, DEBUG))

\* DHT.store(key, val)
DhtStore(key, val, down) ==
    LET Returned(lk, stored) ==
            /\ DhtCommit([lk EXCEPT !.net = stored])
            /\ originator_storage' = VSet(originator_storage, key, val, 0, now)
            /\ dres' = DhtResult("store", key, val, lk, down, lk.contacts,
                                 AllNodes(DhtNet(down), server, key, DEBUG))
        Stored(lk) ==
            Returned(lk, StoreOnContacts(lk.net, server, lk.contacts, key, val))
    IN  Stored(Lookup(DhtNet(down), router, server, key, "rpc_find_nodes", DEBUG))

\* The lookup of DHT.find_value never started: the value was at hand.
FoundLocally(net, r, val) ==
    [NewLookup(net, r) EXCEPT !.found = TRUE, !.val = val]

\* A find_value that asks the network before it looks at home.
LookupThenLocal(net, key) ==
    LET Local(lk) ==
            IF lk.found \/ ~VContains(originator_storage, key) THEN lk
            ELSE [lk EXCEPT !.found = TRUE,
                            !.val = VGet(originator_storage, key)]
    IN  Local(Lookup(net, router, server, key, "rpc_find_value", DEBUG))

\* DHT.find_value(key): the value at hand, else the lookup for it.
LocalOrLookup(net, key) ==
    IF VContains(originator_storage, key)
    THEN FoundLocally(net, router, VGet(originator_storage, key))
    ELSE IF VContains(storage[server], key)
    THEN FoundLocally(net, router, VGet(storage[server], key))
    ELSE IF VContains(cache_storage[server], key)
    THEN FoundLocally(net, router, VGet(cache_storage[server], key))
    ELSE Lookup(net, router, server, key, "rpc_find_value", DEBUG)

\* DHT.find_value(key)
DhtFindValue(key, down) ==
    LET net == DhtNet(down)
        Returned(lk, store_to, cached) ==
            /\ DhtCommit([lk EXCEPT !.net = cached])
            /\ dres' = DhtResult("find_value", key, "", lk, down, store_to,
                                 AllNodes(net, server, key, DEBUG))
            /\ UNCHANGED originator_storage
        Cached(lk, store_to) ==
            Returned(lk, store_to,
                     IF store_to = <<>> THEN lk.net
                     ELSE ProtocolStoreCached(lk.net, server, Head(store_to),
                                              key, lk.val,
                                              EXPIRATION_TIME_SEC \div 2))
        Found(lk) ==
            Cached(lk, IF lk.found /\ lk.found_by # NoContact
                       THEN Take(StoreTo(lk, key), 1) ELSE <<>>)
    IN  Found(LocalOrLookup(net, key))

\* The last call has returned to its caller.
DhtReturn ==
    /\ dres.op # "none"
    /\ dres' = NoDht
    /\ sent' = <<>>
    /\ UNCHANGED << bucket_list, storage, cache_storage, pending_contacts,
                    eviction_count, now, last, steps, server, storVars,
                    concVars, router, originator_storage, DEBUG, lookup,
                    par >>

\* The peers of the server in SpecLookup, the keys it names in its calls,
\* the key some peer holds a value for, and the value a peer then holds.
LPeers == {1, 3, 6}
LKeys == {0, 5}
HeldKey == 0
HeldValue(p) == IF p % 2 = 0 THEN "a" ELSE "b"

\* The sets of peers that are unreachable during one call.
Downs == { D \in SUBSET LPeers : Cardinality(D) <= 1 }

\* for p in sorted(P): the node of p gets the contacts known[p].
RECURSIVE Populate(_, _, _)
Populate(net, P, known) ==
    IF P = {} THEN net
    ELSE Populate(InsertAll(net, Min(P), known[Min(P)]), P \ {Min(P)}, known)

\* A network of the server and LPeers: who knows whom, and which peers
\* hold a value for one of the keys.
InitLookup ==
    /\ server \in Targets
    /\ DEBUG \in BOOLEAN
    /\ \E S \in SUBSET LPeers, H \in SUBSET LPeers,
          known \in [LPeers -> SUBSET LPeers] :
          /\ \A p \in LPeers : p \notin known[p]
          /\ Cardinality(H) <= 1
          /\ LET net == Populate(InsertAll(NetInit, server, S), LPeers, known)
             IN  /\ ~net.overflow
                 /\ bucket_list = net.bucket_list
                 /\ pending_contacts = net.pending_contacts
                 /\ eviction_count = net.eviction_count
          /\ storage = [n \in Ids |->
                           IF n \in H
                           THEN VSet(EmptyStore, HeldKey, HeldValue(n),
                                     EXPIRATION_TIME_SEC, 0)
                           ELSE EmptyStore]
    /\ cache_storage = [n \in Ids |-> EmptyStore]
    /\ router = NewRouter
    /\ originator_storage = EmptyStore
    /\ dres = NoDht
    /\ lookup = NoLookup
    /\ par = NewParallel
    /\ now = 0
    /\ sent = <<>>
    /\ last = NoRequest
    /\ steps = 0
    /\ StorIdle
    /\ ConcIdle

\* The DHT makes one call; after a store it may look a value up, with every
\* peer reachable.
NextLookup ==
    \/ \E k \in LKeys, down \in Downs :
          steps = 0 /\ RouterLookup(k, "rpc_find_nodes", down)
    \/ \E k \in LKeys, down \in Downs :
          steps = 0 /\ RouterLookup(k, "rpc_find_value", down)
    \/ \E k \in LKeys, v \in Values, down \in Downs :
          steps = 0 /\ DhtStore(k, v, down)
    \/ \E k \in LKeys, down \in Downs :
          /\ \/ steps = 0
             \/ steps = 1 /\ down = {} /\ originator_storage # EmptyStore
          /\ DhtFindValue(k, down)
    \/ DhtReturn

SpecLookup == InitLookup /\ [][NextLookup]_vars

\* ------------------------------------------------ insertions into buckets
\* SpecBuckets inserts contacts into the server's BucketList, in any order,
\* through BucketList.add_contact or straight into the KBucket of their
\* range.

\* The contacts inserted.
BContacts == {0, 1, 2, 4, 6, 8, 9, 12}

\* A KBucket.add_contact that takes a contact whatever the bucket holds.
KBucketAddContactUnchecked(b, c) ==
    [bucket |-> [b EXCEPT !.contacts = Append(@, c)], raised |-> FALSE]

\* KBucket.add_contact(c): the bucket after it, and whether it raised
\* TooManyContactsError.
KBucketAddContact(b, c) ==
    IF Len(b.contacts) >= K
    THEN [bucket |-> b, raised |-> TRUE]
    ELSE [bucket |-> [b EXCEPT !.contacts = Append(@, c)], raised |-> FALSE]

\* bucket_list.add_contact(c) on the server's node.
InsertContact(c, up) ==
    /\ steps < MaxContacts
    /\ c # server
    /\ LET net == AddContact(Net(up), server, c, MaxDepth)
       IN  /\ Commit(net)
           /\ last' = Request("ADD_CONTACT", server, c, 0, "", FALSE, 0, net,
                              NoResult)

\* bucket_list.get_kbucket(c).add_contact(c) on the server's node, for a
\* contact c the bucket does not hold.
AddToKBucket(c) ==
    /\ steps < MaxContacts
    /\ last.op = "NONE"
    /\ c # server
    /\ ~ContactExists(bucket_list[server], c)
    /\ LET i == GetKBucketIndex(bucket_list[server], c)
           r == KBucketAddContact(bucket_list[server][i], c)
       IN  /\ bucket_list' = [bucket_list EXCEPT ![server][i] = r.bucket]
           /\ last' = Request("KBUCKET_ADD", server, c, 0, "", FALSE, 0,
                              [Net(TRUE) EXCEPT !.err = r.raised], NoResult)
    /\ steps' = steps + 1
    /\ sent' = <<>>
    /\ UNCHANGED << storage, cache_storage, pending_contacts, eviction_count,
                    now, server, storVars, concVars, dhtVars >>

NextBuckets ==
    \/ \E c \in BContacts, up \in BOOLEAN : InsertContact(c, up)
    \/ \E c \in BContacts : AddToKBucket(c)
    \/ Reply

SpecBuckets == Init /\ [][NextBuckets]_vars

\* ------------------------------------------------- the expiration sweep
\* SpecExpire sets and touches keys of a storage with expirations of a few
\* seconds, lets the clock run past them, and runs the expiration sweep of
\* the DHT on the storage.

\* The expirations keys are set with, in seconds (0: the key never expires).
SweepExpirations == 0 .. (MaxClock + 1)

\* A test of expiry that lets a key live through the instant it expires at.
HasExpiredStrictlyAfter(s, k, t) ==
    LET exp == s[k].expiration_time
        ts == FromIsoFormat(s[k].republish_timestamp)
    IN  exp # 0 /\ t - ts > exp

\* Whether key k of storage s has expired at time t:
\* (now - get_timestamp(k)).total_seconds() >= get_expiration_time_sec(k),
\* for a key whose expiration is not 0.
HasExpired(s, k, t) ==
    LET exp == s[k].expiration_time
        ts == FromIsoFormat(s[k].republish_timestamp)
    IN  exp # 0 /\ t - ts >= exp

\* for k in storage.get_keys(): if k has expired: storage.remove(k)
RECURSIVE RemoveExpired(_, _, _)
RemoveExpired(s, keys, t) ==
    IF keys = {} THEN s
    ELSE RemoveExpired(IF HasExpired(s, Min(keys), t)
                       THEN VRemove(s, Min(keys)) ELSE s,
                       keys \ {Min(keys)}, t)

\* The sweep runs on the storage; sres keeps the storage as the sweep found
\* it.
ExpirationSweep ==
    /\ vstore' = RemoveExpired(vstore, VGetKeys(vstore), now)
    /\ sres' = StorCall("sweep", 0, Ok(vstore), Ok(0))
    /\ UNCHANGED << jfile, expect >>
    /\ StorFrame

\* A second passes.
Elapse ==
    /\ sres.op = "none"
    /\ now < MaxClock + 1
    /\ now' = now + 1
    /\ UNCHANGED << bucket_list, storage, cache_storage, pending_contacts,
                    eviction_count, sent, last, steps, server, storVars,
                    concVars, dhtVars >>

InitExpire == InitStorage /\ ~damaged

NextExpire ==
    \/ \E k \in StorKeys, e \in SweepExpirations : StorageSet(k, "a", e)
    \/ \E k \in StorKeys : StorageTouch(k)
    \/ ExpirationSweep
    \/ StorageReturn
    \/ Elapse

SpecExpire == InitExpire /\ [][NextExpire]_vars

\* ------------------------------------------ the serial Router, step by step
\* SpecWaves runs Router.lookup on the server's router one step at a time:
\* the initial classification, the first query, every iteration of the loop
\* and the return. The network and the router's two lists are the variables
\* above; lookup holds the locals of the call:
\*   pc                      "idle", "classified", "loop" or "returned"
\*                           ("overflow": the RPCs nested deeper than MaxDepth)
\*   all_nodes, nodes_to_query, contacted_nodes, ret, have_work
\*   found, found_by, val, contacts   the QueryReturn
\*   rpcs, reported, planned, aborted as in the lookup record above
\*   iterations              the iterations of the loop so far
\*   pre_contacted, pre_rpcs contacted_nodes and the number of RPCs when the
\*                           last step began
\*   pre_router              the router's lists when the lookup began

\* The lookups one router runs in SpecWaves.
MaxLookups == 2

\* SpecWide runs the serial Router with waves of WideA peers, for with waves
\* of one peer no wave can hold a peer twice.
WideA == 2          \* Constants.A in SpecWide
WideLookups == 3    \* the lookups one router runs in SpecWide

\* The keys looked up in SpecWide: the server's own ID and a peer's.
WideKeys == {5, 6}

\* The lookup under way, as the record the router's operators work on.
Running ==
    [net |-> DhtNet(lookup.down), closer_contacts |-> router.closer_contacts,
     further_contacts |-> router.further_contacts,
     contacted_nodes |-> lookup.contacted_nodes, found |-> lookup.found,
     found_by |-> lookup.found_by, val |-> lookup.val,
     contacts |-> lookup.contacts, rpcs |-> lookup.rpcs,
     reported |-> lookup.reported, planned |-> lookup.planned,
     aborted |-> lookup.aborted]

\* The state a step of the lookup leaves when it ends with the record lk.
LookupStep(lk, pc, ret, have_work, iterations) ==
    /\ bucket_list' = lk.net.bucket_list
    /\ storage' = lk.net.storage
    /\ cache_storage' = lk.net.cache_storage
    /\ pending_contacts' = lk.net.pending_contacts
    /\ eviction_count' = lk.net.eviction_count
    /\ sent' = lk.net.sent
    /\ router' = [closer_contacts |-> lk.closer_contacts,
                  further_contacts |-> lk.further_contacts]
    /\ lookup' = [lookup EXCEPT !.pc = IF lk.net.overflow THEN "overflow"
                                       ELSE pc,
                                !.ret = ret,
                                !.have_work = have_work,
                                !.iterations = iterations,
                                !.contacted_nodes = lk.contacted_nodes,
                                !.found = lk.found, !.found_by = lk.found_by,
                                !.val = lk.val, !.contacts = lk.contacts,
                                !.rpcs = lk.rpcs, !.reported = lk.reported,
                                !.planned = lk.planned,
                                !.aborted = lk.aborted,
                                !.pre_contacted = lookup.contacted_nodes,
                                !.pre_rpcs = Len(lookup.rpcs)]
    /\ UNCHANGED << now, last, steps, server, storVars, concVars,
                    originator_storage, DEBUG, dres, par >>

\* A loop that takes every contact of a list for uncontacted.
UncontactedOrNot(contacts, contacted_nodes) == contacts

\* [i for i in contacts if i not in contacted_nodes]
Uncontacted(contacts, contacted_nodes) ==
    LET NotContacted(i) == i \notin SeqToSet(contacted_nodes)
    IN  SelectSeq(contacts, NotContacted)

\* for c in new_nodes_to_query:
\*     if c.id not in [i.id for i in contacted_nodes]: contacted_nodes.append(c)
MarkContacted(contacted_nodes, new_nodes_to_query) ==
    AppendNew(contacted_nodes, new_nodes_to_query)

\* Router.lookup up to the first query: all_nodes, nodes_to_query, the
\* initial classification into the router's lists, contacted_nodes, for
\* Constants.A = alpha and a router that runs most lookups.
LookupBeginAt(alpha, most, key, rpc_call, down) ==
    LET all_nodes == AllNodes(DhtNet(down), server, key, DEBUG)
        nodes_to_query == Take(all_nodes, alpha)
        IsCloser(n) == Xor(n, key) < Xor(server, key)
        IsFurther(n) == ~IsCloser(n)
    IN  /\ lookup.pc = "idle"
        /\ steps < most
        /\ router' = [closer_contacts |->
                          router.closer_contacts
                              \o SelectSeq(nodes_to_query, IsCloser),
                      further_contacts |->
                          router.further_contacts
                              \o SelectSeq(nodes_to_query, IsFurther)
                              \o Drop(all_nodes, alpha + 1)]
        /\ lookup' = [NoLookup EXCEPT
                         !.pc = "classified", !.key = key,
                         !.rpc_call = rpc_call, !.down = down,
                         !.all_nodes = all_nodes,
                         !.nodes_to_query = nodes_to_query,
                         !.contacted_nodes = MarkContacted(<<>>, nodes_to_query),
                         !.planned = nodes_to_query,
                         !.pre_router = router]
        /\ UNCHANGED << nodeVars, storVars, concVars, originator_storage,
                        DEBUG, dres, par >>

\* Router.lookup up to the first query in SpecWaves.
LookupBegin(key, rpc_call, down) ==
    LookupBeginAt(A, MaxLookups, key, rpc_call, down)

\* query(key, nodes_to_query, ...); if found: return; ret = closer_contacts
\* without repetitions; have_work = True.
LookupFirstQuery ==
    LET Queried(q) ==
            IF q.found \/ q.aborted
            THEN LookupStep(q, "returned", <<>>, TRUE, 0)
            ELSE LookupStep(q, "loop", AppendNew(<<>>, q.closer_contacts),
                            TRUE, 0)
    IN  /\ lookup.pc = "classified"
        /\ Queried(Query(Running, server, lookup.key, lookup.nodes_to_query,
                         lookup.rpc_call))

\* One iteration of while len(ret) < K and have_work, for Constants.A = alpha.
LookupIterationAt(alpha) ==
    LET lk == Running
        closer_uncontacted_nodes ==
            Uncontacted(router.closer_contacts, lookup.contacted_nodes)
        further_uncontacted_nodes ==
            Uncontacted(router.further_contacts, lookup.contacted_nodes)
        have_closer == Len(closer_uncontacted_nodes) > 0
        have_further == Len(further_uncontacted_nodes) > 0
        Wave(q) == LookupStep(q, IF q.found \/ q.aborted THEN "returned"
                                 ELSE "loop",
                              lookup.ret, TRUE, lookup.iterations + 1)
        Ask(contacted_nodes, new_nodes_to_query) ==
            Wave(Query([lk EXCEPT !.contacted_nodes = contacted_nodes,
                                  !.planned = @ \o new_nodes_to_query],
                       server, lookup.key, new_nodes_to_query, lookup.rpc_call))
    IN  /\ lookup.pc = "loop"
        /\ Len(lookup.ret) < K /\ lookup.have_work
        /\ IF have_closer
           THEN Ask(MarkContacted(lookup.contacted_nodes,
                                  Take(closer_uncontacted_nodes, alpha)),
                    Take(closer_uncontacted_nodes, alpha))
           ELSE IF have_further
           THEN Ask(lookup.contacted_nodes \o further_uncontacted_nodes,
                    Take(further_uncontacted_nodes, alpha))
           ELSE LookupStep(lk, "loop", lookup.ret, FALSE,
                           lookup.iterations + 1)

\* One iteration of the loop in SpecWaves.
LookupIteration == LookupIterationAt(A)

\* The loop has ended: return QueryReturn(found=False,
\* contacts=sorted(ret, key=lambda c: c.id ^ key)[:K], ...).
LookupLoopEnds ==
    /\ lookup.pc = "loop"
    /\ ~(Len(lookup.ret) < K /\ lookup.have_work)
    /\ LookupStep([Running EXCEPT
                      !.found = FALSE, !.found_by = NoContact, !.val = "",
                      !.contacts = Take(SortByDistance(SeqToSet(lookup.ret),
                                                       lookup.key), K)],
                  "returned", lookup.ret, lookup.have_work, lookup.iterations)

\* The caller has the result; the router keeps its lists.
LookupReturn ==
    /\ lookup.pc = "returned"
    /\ lookup' = NoLookup
    /\ sent' = <<>>
    /\ steps' = steps + 1
    /\ UNCHANGED << bucket_list, storage, cache_storage, pending_contacts,
                    eviction_count, now, last, server, storVars, concVars,
                    router, originator_storage, DEBUG, dres, par >>

\* The router runs lookups one after the other, with every peer reachable;
\* the lookups after the first are lookups of nodes.
NextWaves ==
    \/ \E k \in LKeys, rpc_call \in {"rpc_find_nodes", "rpc_find_value"} :
          /\ steps = 0 \/ rpc_call = "rpc_find_nodes"
          /\ LookupBegin(k, rpc_call, {})
    \/ LookupFirstQuery
    \/ LookupIteration
    \/ LookupLoopEnds
    \/ LookupReturn

\* The thread that called lookup keeps running until lookup returns:
\* WF_vars(LookupFirstQuery \/ LookupIteration \/ LookupLoopEnds), with
\* ENABLED written out, for one of the three steps is enabled exactly while
\* pc is "classified" or "loop".
LookupRuns ==
    \/ []<>(lookup.pc \notin {"classified", "loop"})
    \/ []<><<LookupFirstQuery \/ LookupIteration \/ LookupLoopEnds>>_vars

SpecWaves == InitLookup /\ [][NextWaves]_vars /\ LookupRuns

\* The router runs WideLookups lookups one after the other with waves of
\* WideA peers, every peer reachable; the lookups after the first are lookups
\* of nodes.
NextWide ==
    \/ \E k \in WideKeys, rpc_call \in {"rpc_find_nodes", "rpc_find_value"} :
          /\ steps = 0 \/ rpc_call = "rpc_find_nodes"
          /\ LookupBeginAt(WideA, WideLookups, k, rpc_call, {})
    \/ LookupFirstQuery
    \/ LookupIterationAt(WideA)
    \/ LookupLoopEnds
    \/ LookupReturn

SpecWide == InitLookup /\ [][NextWide]_vars

\* ------------------------------------------------------ the ParallelRouter
\* SpecParallel runs ParallelRouter.lookup on the server's ParallelRouter
\* with its MAX_THREADS workers; the caller's thread and every worker take
\* their steps in any order. par holds the router and the call:
\*   contact_queue, semaphore, stop_work  the fields of the router
\*   worker      worker -> where rpc_caller stands ("acquire", "dequeue",
\*               "pop", "call", "promote", before the assignment of
\*               "found_by", "found_value" or "found_contacts", or, its
\*               thread ended by an exception, "dead" or "index_error") and
\*               the item it holds
\*   pc          the caller: "idle", "sleeping", "drain", "drain_pop" or
\*               "returned"
\*   closer_contacts, further_contacts, contacted_nodes, ret, find_result
\*               the locals of lookup
\*   returned    what lookup returned
\*   serial      what Router.lookup returns for the same call in the same
\*               network
\*   lookups     the lookups that returned before this one
\*   rpcs, queued, promoted  the peers sent an RPC, the contacts queued, and
\*               the workers that set find_result, during this lookup
\* The code of lookup after `return found_return` is never reached and is
\* not modelled: parallel_found returns a tuple of five, which is true.

\* The state a step of the router leaves in the network.
ParallelStep(net) ==
    /\ bucket_list' = net.bucket_list
    /\ storage' = net.storage
    /\ cache_storage' = net.cache_storage
    /\ pending_contacts' = net.pending_contacts
    /\ eviction_count' = net.eviction_count
    /\ sent' = net.sent
    /\ UNCHANGED << now, last, steps, server, storVars, concVars, router,
                    originator_storage, DEBUG, dres, lookup >>

\* The steps of the router that leave the network alone.
ParallelFrame ==
    UNCHANGED << nodeVars, storVars, concVars, router, originator_storage,
                 DEBUG, dres, lookup >>

\* What a lookup returns, as the claims read it.
Returns(kind, found, contacts, found_by, val) ==
    [kind |-> kind, found |-> found, contacts |-> contacts,
     found_by |-> found_by, val |-> val]

\* queue_work for every contact of nodes: enqueue, semaphore.release().
RECURSIVE QueueWork(_, _, _, _)
QueueWork(p, key, nodes, rpc_call) ==
    IF nodes = <<>> THEN p
    ELSE QueueWork([p EXCEPT !.contact_queue =
                                 Append(@, [key |-> key, contact |-> Head(nodes),
                                            rpc_call |-> rpc_call,
                                            lookup |-> p.lookups]),
                             !.semaphore = @ + 1,
                             !.queued = Append(@, Head(nodes))],
                   key, Tail(nodes), rpc_call)

\* ParallelRouter.lookup up to its loop: the locals, the initial
\* classification, the work queued for nodes_to_query, ret. It returns None
\* when the loop is not entered.
ParallelBegin(key, rpc_call) ==
    LET all_nodes == AllNodes(DhtNet({}), server, key, DEBUG)
        nodes_to_query == Take(all_nodes, A)
        IsCloser(n) == Xor(n, key) < Xor(server, key)
        IsFurther(n) == ~IsCloser(n)
        NotQueried(n) == n \notin SeqToSet(nodes_to_query)
        closer_contacts == SelectSeq(nodes_to_query, IsCloser)
        Entered(p, serial) ==
            par' = [p EXCEPT
                       !.pc = IF Len(closer_contacts) < K THEN "sleeping"
                              ELSE "returned",
                       !.returned = NoReturn,
                       !.serial = Returns("record", serial.found,
                                          serial.contacts, serial.found_by,
                                          serial.val)]
    IN  /\ par.pc = "idle"
        /\ par.lookups < MaxLookups
        /\ Entered(QueueWork([par EXCEPT
                                 !.key = key, !.rpc_call = rpc_call,
                                 !.all_nodes = all_nodes,
                                 !.closer_contacts = closer_contacts,
                                 !.further_contacts =
                                     SelectSeq(nodes_to_query, IsFurther)
                                         \o SelectSeq(all_nodes, NotQueried),
                                 !.contacted_nodes =
                                     AppendNew(<<>>, nodes_to_query),
                                 !.ret = AppendNew(<<>>, closer_contacts),
                                 !.find_result = NewFindResult,
                                 !.rpcs = <<>>, !.queued = <<>>,
                                 !.promoted = 0],
                             key, nodes_to_query, rpc_call),
                   Lookup(DhtNet({}), NewRouter, server, key, rpc_call, DEBUG))
        /\ ParallelFrame

\* rpc_caller: self.semaphore.acquire()
WorkerAcquire(w) ==
    /\ par.worker[w].pc = "acquire"
    /\ par.semaphore > 0
    /\ par' = [par EXCEPT !.semaphore = @ - 1, !.worker[w].pc = "dequeue"]
    /\ ParallelFrame

\* rpc_caller: item = self.contact_queue.dequeue(): the test of dequeue,
\* if not self.is_empty(). On an empty queue dequeue returns None and
\* `if item:` sends the worker back to acquire.
WorkerDequeue(w) ==
    /\ par.worker[w].pc = "dequeue"
    /\ par' = IF par.contact_queue = <<>>
              THEN [par EXCEPT !.worker[w] = IdleWorker]
              ELSE [par EXCEPT !.worker[w].pc = "pop"]
    /\ ParallelFrame

\* dequeue: return self.__items.pop(0), which raises IndexError when
\* another thread has emptied the list since the test.
WorkerPop(w) ==
    /\ par.worker[w].pc = "pop"
    /\ par' = IF par.contact_queue = <<>>
              THEN [par EXCEPT !.worker[w].pc = "index_error"]
              ELSE [par EXCEPT
                       !.contact_queue = Tail(@),
                       !.worker[w] =
                           [IdleWorker EXCEPT
                               !.pc = "call",
                               !.key = Head(par.contact_queue).key,
                               !.contact = Head(par.contact_queue).contact,
                               !.rpc_call = Head(par.contact_queue).rpc_call,
                               !.lookup = Head(par.contact_queue).lookup]]
    /\ ParallelFrame

\* rpc_caller: found, val, found_by = self.get_closer_nodes(item["key"],
\* item["contact"], item["rpc_call"], item["closer_contacts"],
\* item["further_contacts"]): the fourth parameter of get_closer_nodes is
\* further_contacts and the fifth closer_contacts. The lists of a lookup
\* that has returned are no longer read by anyone.
WorkerCall(w) ==
    LET me == par.worker[w]
        Called(lk) ==
            /\ lk.net.overflow => par' = [par EXCEPT !.worker[w].pc = "overflow"]
            /\ ~lk.net.overflow =>
                  par' = [par EXCEPT
                     !.worker[w].pc = IF lk.aborted THEN "dead" ELSE "promote",
                     !.worker[w].has_val = lk.found,
                     !.worker[w].val = lk.val,
                     !.worker[w].found_by = lk.found_by,
                     !.rpcs = IF me.lookup = par.lookups
                              THEN Append(@, me.contact) ELSE @,
                     !.closer_contacts = IF me.lookup = par.lookups
                                         THEN lk.further_contacts ELSE @,
                     !.further_contacts = IF me.lookup = par.lookups
                                          THEN lk.closer_contacts ELSE @,
                     !.find_result.found_contacts =
                         IF me.lookup = par.lookups /\ par.find_result.aliased
                         THEN lk.further_contacts ELSE @]
            /\ ParallelStep(lk.net)
    IN  /\ me.pc = "call"
        /\ Called(GetCloserNodes(
                      NewLookup(DhtNet({}),
                                [closer_contacts |-> par.further_contacts,
                                 further_contacts |-> par.closer_contacts]),
                      server, me.key, me.contact, me.rpc_call))

\* if not self.stop_work: item["find_result"]["found"] = True. No lock is
\* held: the three assignments that follow are steps of their own.
Promote(p, w) ==
    IF p.stop_work THEN [p EXCEPT !.worker[w] = IdleWorker]
    ELSE [p EXCEPT !.find_result.found = TRUE,
                   !.promoted = @ + 1,
                   !.worker[w].pc = "found_by"]

\* rpc_caller: if val or found_by: if not self.stop_work: set find_result.
\* The find_result of a lookup that has returned is no longer read.
WorkerPromote(w) ==
    LET me == par.worker[w]
        done == [par EXCEPT !.worker[w] = IdleWorker]
    IN  /\ me.pc = "promote"
        /\ par' = IF /\ (me.has_val /\ me.val # "") \/ me.found_by # NoContact
                     /\ me.lookup = par.lookups
                  THEN Promote(par, w)
                  ELSE done
        /\ ParallelFrame

\* rpc_caller: item["find_result"]["found_by"] = found_by, then
\* ["found_value"] = val, then ["found_contacts"] = item["closer_contacts"],
\* which is the list itself and not a copy of it.
WorkerRecord(w) ==
    LET me == par.worker[w]
        mine == me.lookup = par.lookups
    IN  /\ me.pc \in {"found_by", "found_value", "found_contacts"}
        /\ par' =
              IF me.pc = "found_by"
              THEN [par EXCEPT !.worker[w].pc = "found_value",
                               !.find_result.found_by =
                                   IF mine THEN me.found_by ELSE @]
              ELSE IF me.pc = "found_value"
              THEN [par EXCEPT !.worker[w].pc = "found_contacts",
                               !.find_result.found_value =
                                   IF mine THEN me.val ELSE @]
              ELSE [par EXCEPT !.worker[w] = IdleWorker,
                               !.find_result.found_contacts =
                                   IF mine THEN par.closer_contacts ELSE @,
                               !.find_result.aliased =
                                   IF mine THEN TRUE ELSE @]
        /\ ParallelFrame

\* The caller wakes from sleep(RESPONSE_WAIT_TIME): found_return =
\* parallel_found(find_result) is a tuple, which is true, so lookup goes on
\* to stop_remaining_work() and will return the tuple.
ParallelWake ==
    /\ par.pc = "sleeping"
    /\ par' = [par EXCEPT
                  !.pc = "drain",
                  !.returned = Returns("tuple", par.find_result.found,
                                       par.find_result.found_contacts,
                                       par.find_result.found_by,
                                       par.find_result.found_value)]
    /\ ParallelFrame

\* stop_remaining_work: the test of a dequeue of dequeue_remaining_work; on
\* an empty queue the loop ends, stop_work = True, and lookup returns.
ParallelDrain ==
    /\ par.pc = "drain"
    /\ par' = IF par.contact_queue = <<>>
              THEN [par EXCEPT !.pc = "returned", !.stop_work = TRUE]
              ELSE [par EXCEPT !.pc = "drain_pop"]
    /\ ParallelFrame

\* dequeue_remaining_work: self.__items.pop(0) of that dequeue; IndexError
\* leaves lookup when a worker has emptied the list since the test.
ParallelDrainPop ==
    /\ par.pc = "drain_pop"
    /\ par' = IF par.contact_queue = <<>>
              THEN [par EXCEPT !.pc = "returned",
                               !.returned = [NoReturn EXCEPT !.kind = "raised"]]
              ELSE [par EXCEPT !.pc = "drain", !.contact_queue = Tail(@)]
    /\ ParallelFrame

\* The caller has the result; the router stays as it is.
ParallelReturn ==
    /\ par.pc = "returned"
    /\ par' = [par EXCEPT !.pc = "idle", !.lookups = @ + 1]
    /\ sent' = <<>>
    /\ UNCHANGED << bucket_list, storage, cache_storage, pending_contacts,
                    eviction_count, now, last, steps, server, storVars,
                    concVars, router, originator_storage, DEBUG, dres,
                    lookup >>

\* A network in which peer 1 alone may know another peer, one at most, and
\* may hold a value.
InitParallel ==
    /\ InitLookup
    /\ ~DEBUG
    /\ Cardinality(ContactSet(bucket_list[1])) <= 1
    /\ \A p \in LPeers \ {1} :
          /\ ContactSet(bucket_list[p]) = {}
          /\ storage[p] = EmptyStore

\* The router runs lookups one after the other; the lookups after the first
\* are lookups of the value some peer may hold.
NextParallel ==
    \/ \E k \in LKeys, rpc_call \in {"rpc_find_nodes", "rpc_find_value"} :
          /\ par.lookups = 0 \/ (k = HeldKey /\ rpc_call = "rpc_find_value")
          /\ ParallelBegin(k, rpc_call)
    \/ \E w \in Workers : WorkerAcquire(w)
    \/ \E w \in Workers : WorkerDequeue(w)
    \/ \E w \in Workers : WorkerPop(w)
    \/ \E w \in Workers : WorkerCall(w)
    \/ \E w \in Workers : WorkerPromote(w)
    \/ \E w \in Workers : WorkerRecord(w)
    \/ ParallelWake
    \/ ParallelDrain
    \/ ParallelDrainPop
    \/ ParallelReturn

SpecParallel == InitParallel /\ [][NextParallel]_vars

\* ----------------------------------------------------------------- claims

RpcOps == {"PING", "STORE", "FIND_NODE", "FIND_VALUE"}

\* The STORE RPCs node n itself issued to peer s in the last step.
StoresSent(n, s) ==
    { i \in 1 .. Len(sent) :
        sent[i].op = "STORE" /\ sent[i].from = n /\ sent[i].to = s }

\* seq is the close-contact list of bucket list bl for key without exclude:
\* min(K, n) contacts of bl other than exclude, strictly ascending by XOR
\* distance to key, and nothing left out is closer than the farthest listed.
IsCloseContactList(seq, bl, key, exclude) ==
    LET others == ContactSet(bl) \ {exclude}
        n == Cardinality(others)
        listed == SeqToSet(seq)
    IN  /\ Len(seq) = (IF n < K THEN n ELSE K)
        /\ listed \subseteq others
        /\ \A i \in 1 .. Len(seq) - 1 : Xor(seq[i], key) < Xor(seq[i + 1], key)
        /\ \A c \in others \ listed :
              \A i \in 1 .. Len(seq) : Xor(seq[i], key) < Xor(c, key)

\* C1: a request whose sender ID equals the node's own ID is answered with an
\* error, whichever of the four RPCs it is, and leaves the node's bucket list,
\* primary storage and cache storage as they were and issues no RPC.
C1_SelfQueryRejected ==
    (last.op \in RpcOps /\ last.sender = last.node) =>
        /\ last.err
        /\ bucket_list[last.node] = last.pre_bucket_list
        /\ storage[last.node] = last.pre_storage
        /\ cache_storage[last.node] = last.pre_cache_storage
        /\ sent = <<>>

\* C1 happens: a STORE from the node's own ID was rejected by a node that
\* already holds contacts and a binding.
C1_Witness ==
    /\ last.op = "STORE"
    /\ last.sender = last.node
    /\ last.err
    /\ ContactSet(bucket_list[last.node]) # {}
    /\ storage[last.node] # EmptyStore

\* C2: after a node handled PING, STORE, FIND_NODE or FIND_VALUE from a
\* sender S other than itself, S is a contact of its bucket list, whenever
\* S's bucket had room or could split.
C2_SenderIsContact ==
    ( /\ last.op \in RpcOps
      /\ ~last.err
      /\ HasRoomOrSplits(last.node, last.pre_bucket_list, last.sender) ) =>
        ContactExists(bucket_list[last.node], last.sender)

\* C3: a STORE with is_cached set writes the binding to cache storage only,
\* with the caller's expiration; without it, to primary storage only, with
\* EXPIRATION_TIME_SEC. The other storage and the other keys stay as they were.
C3_StoreRouting ==
    (last.op = "STORE" /\ ~last.err) =>
        LET n == last.node
            written == IF last.is_cached THEN cache_storage[n] ELSE storage[n]
            before == IF last.is_cached THEN last.pre_cache_storage
                      ELSE last.pre_storage
            exp == IF last.is_cached THEN last.exp ELSE EXPIRATION_TIME_SEC
        IN  /\ DOMAIN written = (DOMAIN before) \cup {last.key}
            /\ written[last.key].value = last.value
            /\ written[last.key].expiration_time = exp
            /\ \A k \in (DOMAIN before) \ {last.key} : written[k] = before[k]
            /\ last.is_cached => storage[n] = last.pre_storage
            /\ ~last.is_cached => cache_storage[n] = last.pre_cache_storage

\* C3 happens: a cached STORE with the caller's expiration reached a node
\* whose primary storage holds that key with another value.
C3_Witness ==
    /\ last.op = "STORE"
    /\ ~last.err
    /\ last.is_cached
    /\ last.exp # 0
    /\ last.key \in DOMAIN storage[last.node]
    /\ storage[last.node][last.key].value # last.value

\* C4: FIND_VALUE returns the primary-storage value of the key when primary
\* storage holds it, else the cache-storage value when cache storage holds it,
\* else the close-contact list that FIND_NODE computes, without the sender;
\* never both, never neither.
C4_FindValueResult ==
    (last.op = "FIND_VALUE" /\ ~last.err) =>
        LET n == last.node
            r == last.ret
        IN  /\ r.has_val # r.has_contacts
            /\ IF last.key \in DOMAIN storage[n]
               THEN r.has_val /\ r.val = storage[n][last.key].value
               ELSE IF last.key \in DOMAIN cache_storage[n]
               THEN r.has_val /\ r.val = cache_storage[n][last.key].value
               ELSE /\ r.has_contacts
                    /\ last.sender \notin SeqToSet(r.contacts)
                    /\ r.contacts = GetCloseContacts(bucket_list[n], last.key,
                                                     last.sender)

\* C4 happens: FIND_VALUE for a key that primary and cache storage hold
\* with different values.
C4_Witness ==
    /\ last.op = "FIND_VALUE"
    /\ ~last.err
    /\ last.key \in DOMAIN storage[last.node]
    /\ last.key \in DOMAIN cache_storage[last.node]
    /\ storage[last.node][last.key].value
           # cache_storage[last.node][last.key].value

\* C5: FIND_NODE returns min(K, n) contacts, n the contacts other than the
\* sender, strictly ascending by XOR distance to the key, without the sender,
\* and no contact left out is closer than the farthest one returned.
C5_FindNodeResult ==
    (last.op = "FIND_NODE" /\ ~last.err) =>
        /\ last.ret.has_contacts
        /\ IsCloseContactList(last.ret.contacts, bucket_list[last.node],
                              last.key, last.sender)

\* C5 happens: FIND_NODE from a known contact on a table holding more than K
\* other contacts returned K of them.
C5_Witness ==
    /\ last.op = "FIND_NODE"
    /\ ~last.err
    /\ ContactExists(last.pre_bucket_list, last.sender)
    /\ Cardinality(ContactSet(bucket_list[last.node]) \ {last.sender}) > K
    /\ Len(last.ret.contacts) = K

\* C6: while handling an RPC from S a node sends STORE(k) to S exactly for
\* the keys k of primary storage to which it is closer than every contact it
\* knows (every key when it knows none), and only when S is new: in neither
\* the bucket list nor the pending contacts.
C6_StoreIffNewAndCloser ==
    (last.op \in RpcOps /\ ~last.err) =>
        LET n == last.node
            known == ContactSet(last.pre_bucket_list)
            new == /\ last.sender \notin known
                   /\ last.sender \notin SeqToSet(last.pre_pending_contacts)
            due == IF new
                   THEN { k \in DOMAIN last.pre_storage :
                            \A c \in known : Xor(n, k) < Xor(c, k) }
                   ELSE {}
        IN  /\ { sent[i].key : i \in StoresSent(n, last.sender) } = due
            /\ \A i \in 1 .. Len(sent) :
                  (sent[i].op = "STORE" /\ sent[i].from = n)
                      => sent[i].to = last.sender

\* C7: in either storage, a key that was set is contained and get returns
\* the value of its last set, whatever was called on other keys since, until
\* it is removed; a removed key is not contained and not among get_keys().
C7_SetGetRemove ==
    \A k \in StorKeys :
        /\ expect[k].state = "set" =>
              /\ SameResult(VContainsCall(vstore, k), Ok(TRUE))
              /\ SameResult(VGetCall(vstore, k), Ok(expect[k].value))
              /\ SameResult(JContainsCall(jfile, k), Ok(TRUE))
              /\ SameResult(JGetCall(jfile, k), Ok(expect[k].value))
        /\ expect[k].state = "removed" =>
              /\ SameResult(VContainsCall(vstore, k), Ok(FALSE))
              /\ SameResult(JContainsCall(jfile, k), Ok(FALSE))
              /\ k \notin VGetKeysCall(vstore).val
              /\ k \notin JGetKeysCall(jfile).val

\* C7 happens: a key is set, and since then another key was set and removed.
C7_Witness ==
    \E k \in StorKeys, k2 \in StorKeys :
        /\ k # k2
        /\ expect[k].state = "set"
        /\ expect[k2].state = "removed"
        /\ sres.op = "remove"
        /\ sres.key = k2
        /\ StrKey(k) \in DOMAIN JsonLoadOrEmpty(jfile)

\* C8: on a file that was sound from the start, every call returns the same
\* from the volatile and from the persistent storage: the same value, boolean
\* or key set, or the same error.
C8_SameResults ==
    ~damaged => SameResult(sres.v, sres.j)

\* C9: a call that reads the backing file while it cannot be parsed reports
\* an error and leaves the file as it is.
C9_CorruptionReported ==
    ( /\ sres.corrupt
      /\ sres.op \in {"contains", "get", "get_keys", "try_get_value", "set",
                      "remove", "touch"} ) =>
        /\ ~sres.j.ok
        /\ sres.j.err = "JSONDecodeError"
        /\ jfile.corrupt

\* C10: the calls of several threads on one storage have the effect of some
\* sequential order, so once every call has returned, a key whose set has
\* returned and whose remove was never called is contained.
C10_SetNotLost ==
    \A k \in StorKeys :
        ( /\ \A t \in Threads : thr[t].pc = "idle"
          /\ << "set", k >> \in hist.returned
          /\ << "remove", k >> \notin hist.called ) =>
            SameResult(JContainsCall(jfile, k), Ok(TRUE))

\* The calls of Router.lookup made directly on the router.
LookupOps == {"rpc_find_nodes", "rpc_find_value"}

\* C11: a serial lookup that ends without a value returns found = false and
\* the up-to-K contacts closest to the key among the contacts of
\* closer_contacts, those of every wave included, sorted ascending by XOR
\* distance to the key and none listed twice. (The list the lookup starts
\* its result from is part of closer_contacts.)
C11_LookupReturnsClosest ==
    dres.op \in LookupOps /\ ~dres.found /\ ~dres.aborted
        => dres.contacts =
               Take(SortByDistance(SeqToSet(dres.closer_contacts), dres.key), K)

\* Whether peer p held a value for key when the call started.
HeldBefore(p, key) ==
    VContains(dres.pre_storage[p], key) \/ VContains(dres.pre_cache_storage[p], key)

\* What FIND_VALUE for key brings back from a peer p that has a value.
ValueAt(p, key) ==
    IF VContains(storage[p], key) THEN VGet(storage[p], key)
    ELSE VGet(cache_storage[p], key)

\* C12: a FIND_VALUE lookup returns found = true as soon as one queried node
\* returns a value: found_by is that node, val is the value it returned, the
\* nodes queried before it returned none, and the reply with the value is the
\* end of the RPCs of the lookup.
C12_FoundStopsLookup ==
    dres.op = "rpc_find_value" /\ dres.found
        => /\ dres.rpcs # <<>>
           /\ LET n == Len(dres.rpcs)
                  hit == dres.rpcs[n]
              IN  /\ ~hit.error
                  /\ dres.found_by = hit.to
                  /\ HeldBefore(hit.to, dres.key)
                  /\ dres.val = ValueAt(hit.to, dres.key)
                  /\ hit.replied_at = Len(sent)
                  /\ \A i \in 1 .. n - 1 :
                        dres.rpcs[i].error \/ ~HeldBefore(dres.rpcs[i].to, dres.key)

\* A lookup found the value on the second node it queried or a later one,
\* while a contact of the routing table had not been queried.
C12_Witness ==
    /\ dres.op = "rpc_find_value"
    /\ dres.found
    /\ Len(dres.rpcs) >= 2
    /\ \E c \in ContactSet(bucket_list[server]) :
          \A i \in 1 .. Len(dres.rpcs) : dres.rpcs[i].to # c

\* The peers the RPCs of the last lookup went to, in order.
Queried == [i \in 1 .. Len(dres.rpcs) |-> dres.rpcs[i].to]

\* The RPCs of the last lookup that failed.
Failed == { i \in 1 .. Len(dres.rpcs) : dres.rpcs[i].error }

\* DHT.handle_error has counted one more failure of contact c, or has
\* evicted c on its EvictionLimit-th failure.
FailureCounted(c) ==
    LET before == EvictionCount(dres.pre_eviction_count, c)
        after == EvictionCount(eviction_count[server], c)
    IN  IF before + 1 < EvictionLimit THEN after = before + 1
        ELSE after = 0 /\ ~ContactExists(bucket_list[server], c)

\* C13: an RPC of a lookup that fails is reported to the DHT's error hook
\* for the contact it went to, and does not end the lookup: no exception
\* leaves the lookup, every node the lookup chose to query is queried (up to
\* the node that returns a value), and a result is returned.
C13_FailureDoesNotAbort ==
    dres.op \in LookupOps /\ Failed # {}
        => /\ ~dres.aborted
           /\ \A i \in Failed : /\ dres.rpcs[i].to \in dres.down
                                /\ dres.rpcs[i].to \in SeqToSet(dres.reported)
                                /\ FailureCounted(dres.rpcs[i].to)
           /\ Len(dres.reported) = Cardinality(Failed)
           /\ Queried = SubSeq(dres.planned, 1, Len(dres.rpcs))
           /\ ~dres.found => Queried = dres.planned
           /\ dres.found => ~dres.rpcs[Len(dres.rpcs)].error

\* An RPC of a lookup failed and the lookup queried another node after it.
C13_Witness ==
    /\ dres.op \in LookupOps
    /\ ~dres.aborted
    /\ \E i \in Failed : i < Len(dres.rpcs)

\* Storage s binds key to value with the default expiration.
HoldsDefault(s, key, value) ==
    /\ VContains(s, key)
    /\ VGet(s, key) = value
    /\ s[key].expiration_time = EXPIRATION_TIME_SEC

\* The network when the last call started was the server and one peer p
\* that knew nobody.
TwoNodeNetwork(p) ==
    /\ dres.initial = <<p>>
    /\ dres.planned = <<p>>
    /\ dres.closer_contacts \o router.further_contacts = <<p>>

\* C14: after DHT.store(key, value) the originator storage binds key to
\* value, and so does, with the default expiration, the primary storage of
\* every peer the FIND_NODE lookup returned; in a network of two nodes the
\* other node is such a peer.
C14_StoreReachesClosest ==
    dres.op = "store" /\ dres.down = {}
        => /\ VContains(originator_storage, dres.key)
           /\ VGet(originator_storage, dres.key) = dres.value
           /\ \A c \in SeqToSet(dres.contacts) :
                 HoldsDefault(storage[c], dres.key, dres.value)
           /\ \A p \in LPeers :
                 TwoNodeNetwork(p) => HoldsDefault(storage[p], dres.key, dres.value)

\* The peers whose primary or cache storage held key when the call started.
HoldersBefore(key) == { p \in Ids \ {server} : HeldBefore(p, key) }

\* When the last call started we had no value for key at hand.
NotHeldLocally(key) ==
    /\ ~VContains(dres.pre_originator_storage, key)
    /\ ~VContains(dres.pre_storage[server], key)
    /\ ~VContains(dres.pre_cache_storage[server], key)

\* C15: DHT.find_value(key) for a key that only one peer holds, a peer in
\* our routing table, returns found = true with that peer's value, whether
\* the peer is closer to the key than we are or further; afterwards our
\* primary storage is still without the key and the peer still holds it.
C15_FindValueOnPeer ==
    \A p \in LPeers :
        /\ dres.op = "find_value"
        /\ dres.down = {}
        /\ NotHeldLocally(dres.key)
        /\ HoldersBefore(dres.key) = {p}
        /\ p \in SeqToSet(dres.pre_contacts)
        /\ Len(dres.pre_contacts) <= K
        => /\ dres.found
           /\ dres.val = VGet(dres.pre_storage[p], dres.key)
           /\ ~VContains(storage[server], dres.key)
           /\ VContains(storage[p], dres.key)
           /\ VGet(storage[p], dres.key) = dres.val

\* The contacts of the last lookup, other than the node that had the value,
\* that are closer to the key than that node.
CloserThanFinder ==
    { c \in SeqToSet(dres.contacts) :
        c # dres.found_by /\ Xor(c, dres.key) < Xor(dres.found_by, dres.key) }

BucketsPartition(bl) ==
    /\ Len(bl) >= 1
    /\ bl[1].low = 0
    /\ bl[Len(bl)].high = IdCount
    /\ \A i \in 1 .. Len(bl) : bl[i].low < bl[i].high
    /\ \A i \in 1 .. Len(bl) - 1 : bl[i].high = bl[i + 1].low

\* C18: after any insertions and splits the buckets of a BucketList are
\* sorted, do not overlap and cover the whole ID space: every key lies in
\* the range of exactly one bucket, and get_kbucket(key) returns it.
C18_BucketsPartitionIds ==
    \A n \in Ids :
        LET bl == bucket_list[n]
        IN  /\ BucketsPartition(bl)
            /\ \A key \in Ids :
                  /\ Cardinality({ i \in 1 .. Len(bl) :
                                     bl[i].low <= key /\ key < bl[i].high }) = 1
                  /\ GetKBucket(bl, key).low <= key
                  /\ key < GetKBucket(bl, key).high

\* The server's BucketList after two splits.
C18_Witness ==
    /\ Len(bucket_list[server]) >= 3
    /\ last.op = "ADD_CONTACT"

\* C19: after any insertions and splits every contact c held in a bucket b
\* has b.low <= c < b.high: a split leaves no contact in a bucket whose
\* range excludes its ID.
C19_ContactsInRange ==
    \A n \in Ids :
        \A i \in 1 .. Len(bucket_list[n]) :
            \A c \in SeqToSet(bucket_list[n][i].contacts) :
                bucket_list[n][i].low <= c /\ c < bucket_list[n][i].high

\* A split has left contacts in both halves of the bucket it split.
C19_Witness ==
    /\ last.op = "ADD_CONTACT"
    /\ Len(bucket_list[server]) > Len(last.pre_bucket_list)
    /\ \E i \in 1 .. Len(bucket_list[server]) - 1 :
          /\ bucket_list[server][i].contacts # <<>>
          /\ bucket_list[server][i + 1].contacts # <<>>
          /\ \E j \in 1 .. Len(last.pre_bucket_list) :
                /\ bucket_list[server][i].low = last.pre_bucket_list[j].low
                /\ bucket_list[server][i + 1].high = last.pre_bucket_list[j].high

\* C20: no bucket ever holds more than K contacts: adding a further contact
\* straight to a KBucket that holds K contacts raises TooManyContactsError
\* and leaves the contacts of the bucket as they were, and adding to a
\* bucket with room raises nothing.
C20_BucketNeverOverfull ==
    /\ \A n \in Ids : \A i \in 1 .. Len(bucket_list[n]) :
          Len(bucket_list[n][i].contacts) <= K
    /\ last.op = "KBUCKET_ADD"
          => LET before == GetKBucket(last.pre_bucket_list, last.sender)
             IN  /\ last.err <=> Len(before.contacts) >= K
                 /\ last.err => bucket_list[server] = last.pre_bucket_list
                 /\ ~last.err =>
                       GetKBucket(bucket_list[server], last.sender).contacts =
                           Append(before.contacts, last.sender)

\* A contact was added straight to a bucket that held K contacts.
C20_Witness ==
    /\ last.op = "KBUCKET_ADD"
    /\ last.err
    /\ Len(GetKBucket(last.pre_bucket_list, last.sender).contacts) = K
    /\ last.sender \notin SeqToSet(GetKBucket(last.pre_bucket_list, last.sender).contacts)

\* The bucket of the server's BucketList whose range holds the server's ID.
OwnerBucket == GetKBucket(bucket_list[server], server)

\* The first depth at or after d that is a multiple of B.
NextBoundary(d) == ((d + B - 1) \div B) * B

\* C21: after any sequence of inserts into an initially empty BucketList
\* with owner o, the bucket whose range contains o has a depth greater than
\* or equal to the depth of every other bucket.
C21_OwnerBucketDeepest ==
    \A i \in 1 .. Len(bucket_list[server]) :
        Depth(bucket_list[server][i]) <= Depth(OwnerBucket)

\* C21, amended: after any sequence of inserts no bucket is deeper than the
\* first multiple of B at or after the depth of the bucket that contains o,
\* and a bucket deeper than that bucket came from splitting a bucket whose
\* depth is not a multiple of B.
C21_OwnerBucketDeepestToBoundary ==
    \A i \in 1 .. Len(bucket_list[server]) :
        LET d == Depth(bucket_list[server][i])
        IN  /\ d <= NextBoundary(Depth(OwnerBucket))
            /\ d > Depth(OwnerBucket) => (d - 1) % B # 0

\* An insert has split a bucket away from the owner below the depth of the
\* owner's bucket.
C21_Witness ==
    /\ last.op = "ADD_CONTACT"
    /\ Len(bucket_list[server]) > Len(last.pre_bucket_list)
    /\ \E i \in 1 .. Len(bucket_list[server]) :
          /\ Depth(bucket_list[server][i]) > Depth(OwnerBucket)
          /\ last.sender \in SeqToSet(bucket_list[server][i].contacts)

\* C22: inserting a contact into a bucket that has room never changes the
\* number of buckets (K distinct contacts inserted into a fresh BucketList
\* leave exactly one bucket holding all K); inserting one more distinct
\* contact into the full bucket whose range contains the owner's ID splits
\* it, so that the BucketList then has at least two buckets; and the number
\* of buckets never decreases.
C22_RoomKeepsSplitGrows ==
    LET bl == bucket_list[server]
        pre == last.pre_bucket_list
        c == last.sender
        b == GetKBucket(pre, c)
        Fresh == steps <= K
        Added == last.op = "ADD_CONTACT"
        HadRoom == Len(b.contacts) < K
        FullOwnerBucket == /\ Len(b.contacts) = K
                           /\ c \notin SeqToSet(b.contacts)
                           /\ b.low <= server
                           /\ server < b.high
    IN  /\ Fresh => (Len(bl) = 1 /\ Len(bl[1].contacts) <= steps)
        /\ (last.op \in {"ADD_CONTACT", "KBUCKET_ADD"}) => (Len(bl) >= Len(pre))
        /\ (Added /\ HadRoom) =>
              (Len(bl) = Len(pre) /\ ContactSet(bl) = ContactSet(pre) \cup {c})
        /\ (Added /\ FullOwnerBucket) =>
              (Len(bl) >= 2 /\ Len(bl) > Len(pre))

\* K distinct contacts filled the one bucket of a fresh BucketList, and one
\* more distinct contact has split it.
C22_Witness ==
    /\ last.op = "ADD_CONTACT"
    /\ steps = K + 1
    /\ Len(last.pre_bucket_list) = 1
    /\ Len(last.pre_bucket_list[1].contacts) = K
    /\ last.sender \notin SeqToSet(last.pre_bucket_list[1].contacts)
    /\ Len(bucket_list[server]) >= 2

\* C23: inserting a contact whose ID is already in the BucketList adds no
\* second entry and splits nothing: the contacts and the number of buckets
\* are as they were, and the contact is moved to the most-recently-seen end
\* of its bucket.
C23_DuplicateMovesToEnd ==
    LET bl == bucket_list[server]
        pre == last.pre_bucket_list
        c == last.sender
        i == GetKBucketIndex(pre, c)
    IN  (last.op = "ADD_CONTACT" /\ ContactExists(pre, c)) =>
            /\ Len(bl) = Len(pre)
            /\ ContactSet(bl) = ContactSet(pre)
            /\ Len(Contacts(bl)) = Len(Contacts(pre))
            /\ \A j \in 1 .. Len(pre) : j # i => bl[j] = pre[j]
            /\ bl[i].low = pre[i].low
            /\ bl[i].high = pre[i].high
            /\ bl[i].contacts = Append(Without(pre[i].contacts, c), c)
            /\ sent = <<>>

\* A contact that was the least recently seen of a full bucket was inserted
\* again.
C23_Witness ==
    /\ last.op = "ADD_CONTACT"
    /\ ContactExists(last.pre_bucket_list, last.sender)
    /\ LET b == GetKBucket(last.pre_bucket_list, last.sender)
       IN  /\ Len(b.contacts) = K
           /\ Head(b.contacts) = last.sender

\* C24: the expiration sweep removes key k from a storage exactly when
\* expiration_seconds(k) # 0 and now - republish_timestamp(k) >=
\* expiration_seconds(k): a binding with expiration 0 is never removed, a
\* binding is not removed before republish_timestamp + expiration_seconds,
\* and it is removed by a sweep that runs at exactly that instant; the
\* bindings that stay are as they were.
C24_SweepRemovesExpired ==
    sres.op = "sweep" =>
        LET pre == sres.v.val
            Stamp(k) == FromIsoFormat(pre[k].republish_timestamp)
            Lapsed(k) == /\ pre[k].expiration_time # 0
                         /\ now - Stamp(k) >= pre[k].expiration_time
        IN  /\ DOMAIN vstore = { k \in DOMAIN pre : ~Lapsed(k) }
            /\ \A k \in DOMAIN vstore : vstore[k] = pre[k]
            /\ \A k \in DOMAIN pre :
                  /\ pre[k].expiration_time = 0 => k \in DOMAIN vstore
                  /\ now < Stamp(k) + pre[k].expiration_time => k \in DOMAIN vstore
                  /\ ( /\ pre[k].expiration_time # 0
                       /\ now = Stamp(k) + pre[k].expiration_time )
                        => k \notin DOMAIN vstore

\* A sweep ran at the very instant one key expired, and removed it, while
\* an older key that never expires and a key that expires later stayed.
C24_Witness ==
    /\ sres.op = "sweep"
    /\ \E k \in DOMAIN sres.v.val :
          /\ sres.v.val[k].expiration_time # 0
          /\ now = FromIsoFormat(sres.v.val[k].republish_timestamp)
                     + sres.v.val[k].expiration_time
          /\ k \notin DOMAIN vstore
    /\ \E k \in DOMAIN vstore :
          \/ vstore[k].expiration_time = 0
                /\ FromIsoFormat(vstore[k].republish_timestamp) < now
          \/ now < FromIsoFormat(vstore[k].republish_timestamp)
                     + vstore[k].expiration_time

\* C26: on a non-cached STORE as on every RPC, the new-contact key
\* propagation is evaluated before the sender is inserted into the bucket
\* list: a sender that is in neither the bucket list nor the pending contacts
\* when its non-cached STORE arrives is sent STORE for every key of primary
\* storage to which the node is closer than every contact it knows.
C26_PropagationBeforeInsert ==
    (last.op = "STORE" /\ ~last.err /\ ~last.is_cached) =>
        LET n == last.node
            known == ContactSet(last.pre_bucket_list)
            new == /\ last.sender \notin known
                   /\ last.sender \notin SeqToSet(last.pre_pending_contacts)
            due == IF new /\ known # {}
                   THEN { k \in DOMAIN last.pre_storage :
                            \A c \in known : Xor(n, k) < Xor(c, k) }
                   ELSE {}
        IN  due \subseteq { sent[i].key : i \in StoresSent(n, last.sender) }

\* C27: on a finite network in which every RPC returns, the serial lookup
\* terminates: every iteration of its loop either sends the RPC to at least
\* one node that was not in contacted_nodes before, or ends the loop (it
\* returns, or it leaves the loop's condition false), and a lookup that has
\* begun returns.
C27_SerialLookupTerminates ==
    /\ [][LookupIteration =>
             \/ \E i \in (Len(lookup.rpcs) + 1) .. Len(lookup'.rpcs) :
                   lookup'.rpcs[i].to \notin SeqToSet(lookup.contacted_nodes)
             \/ lookup'.pc = "returned"
             \/ ~(Len(lookup'.ret) < K /\ lookup'.have_work)]_vars
    /\ (lookup.pc # "idle") ~> (lookup.pc = "returned")

\* A lookup has returned without a value after two iterations of its loop
\* that queried a node each and one that found no node left to query.
C27_Witness ==
    /\ lookup.pc = "returned"
    /\ ~lookup.found /\ ~lookup.aborted
    /\ lookup.iterations >= 3
    /\ Len(lookup.rpcs) >= 3
    /\ ~lookup.have_work

\* The peers the lookup under way has sent its RPC to.
SentRpc == { lookup.rpcs[i].to : i \in 1 .. Len(lookup.rpcs) }

\* s holds no contact twice.
NoRepetition(s) == \A i, j \in 1 .. Len(s) : s[i] = s[j] => i = j

\* C28: a serial lookup stops without a value only when its result has K
\* contacts or no uncontacted node remains: when the first lookup of a
\* router returns found = false with fewer than K contacts, every contact in
\* closer_contacts or further_contacts, and every one of the initial
\* contacts, has been sent the RPC.
C28_StopsOnlyWhenAllQueried ==
    ( /\ lookup.pc = "returned"
      /\ steps = 0
      /\ ~lookup.found /\ ~lookup.aborted
      /\ Len(lookup.contacts) < K )
        => \A c \in SeqToSet(router.closer_contacts)
                      \cup SeqToSet(router.further_contacts)
                      \cup SeqToSet(lookup.all_nodes) : c \in SentRpc

\* C29: at every point of every lookup run on a router, also one that
\* follows earlier lookups on it, closer_contacts and further_contacts are
\* disjoint, neither holds a contact twice, and neither holds the local
\* node's own contact.
C29_CloserFurtherDisjoint ==
    lookup.pc # "idle" =>
        /\ SeqToSet(router.closer_contacts)
               \cap SeqToSet(router.further_contacts) = {}
        /\ NoRepetition(router.closer_contacts)
        /\ NoRepetition(router.further_contacts)
        /\ server \notin SeqToSet(router.closer_contacts)
        /\ server \notin SeqToSet(router.further_contacts)

\* C30: at the start of a lookup every one of the up-to-K closest contacts
\* taken from the routing table is in closer_contacts or further_contacts:
\* each of the first A in closer_contacts if its XOR distance to the key is
\* strictly smaller than our own and in further_contacts otherwise, every
\* other one in further_contacts.
C30_InitialContactsClassified ==
    lookup.pc = "classified" =>
        \A i \in 1 .. Len(lookup.all_nodes) :
            LET c == lookup.all_nodes[i]
            IN  IF i <= A /\ Xor(c, lookup.key) < Xor(server, lookup.key)
                THEN c \in SeqToSet(router.closer_contacts)
                ELSE c \in SeqToSet(router.further_contacts)

\* C25: for the same key, RPC kind and network state in which every RPC
\* responds, ParallelRouter.lookup returns a result with the same found
\* flag, the same value and the same closest contacts as Router.lookup, and
\* it always returns a result record.
C25_ParallelAsSerial ==
    par.pc = "returned" =>
        /\ par.returned.kind # "none"
        /\ par.returned.found = par.serial.found
        /\ par.returned.val = par.serial.val
        /\ par.returned.contacts = par.serial.contacts

\* C31: a step of the serial lookup that sent one RPC, to the node N, appends
\* to closer_contacts exactly the contacts N returned that are not ourselves,
\* not N and in neither list, and whose id XOR N's id is strictly smaller
\* than N's id XOR the key, and appends the others of them to
\* further_contacts; every other contact N returned is added to neither
\* list. What N returned is N itself when N answered with the value, and
\* otherwise the contacts of N's table closest to the key without the sender.
C31_ReturnedContactsClassified ==
    [][(/\ lookup.pc \in {"classified", "loop"}
        /\ Len(lookup'.rpcs) = Len(lookup.rpcs) + 1
        /\ ~lookup'.aborted)
       => LET N == lookup'.rpcs[Len(lookup'.rpcs)].to
              returned == IF lookup'.found THEN << N >>
                          ELSE GetCloseContacts(bucket_list'[N], lookup.key,
                                                server)
              IsNew(c) == /\ c # server
                          /\ c # N
                          /\ c \notin SeqToSet(router.closer_contacts)
                          /\ c \notin SeqToSet(router.further_contacts)
              IsClose(c) == Xor(c, N) < Xor(N, lookup.key)
              IsFar(c) == ~IsClose(c)
              fresh == SelectSeq(returned, IsNew)
          IN  /\ router'.closer_contacts =
                     router.closer_contacts \o SelectSeq(fresh, IsClose)
              /\ router'.further_contacts =
                     router.further_contacts \o SelectSeq(fresh, IsFar)]_vars

\* A lookup whose queries appended a returned contact to closer_contacts and
\* another to further_contacts, after a query that appended nothing.
C31_Witness ==
    LET Began == SeqToSet(lookup.all_nodes)
                     \cup SeqToSet(lookup.pre_router.closer_contacts)
                     \cup SeqToSet(lookup.pre_router.further_contacts)
    IN  /\ lookup.pc = "loop"
        /\ Len(lookup.rpcs) >= 2
        /\ SeqToSet(router.closer_contacts) \ Began # {}
        /\ SeqToSet(router.further_contacts) \ Began # {}

\* C32: an iteration of the serial lookup's loop sends its RPCs to the
\* uncontacted nodes of closer_contacts, in their order, when there is one,
\* and to those of further_contacts only when closer_contacts has none; it
\* sends them to the first min(WideA, number of uncontacted nodes of that list)
\* of them (to fewer only when a node answers with the value or the lookup is
\* left by an exception), to none when neither list has an uncontacted node,
\* and no node receives two RPCs of one lookup.
C32_WaveFromCloserThenFurther ==
    [][(lookup.pc = "loop" /\ lookup'.iterations = lookup.iterations + 1)
       => LET NotContacted(c) == c \notin SeqToSet(lookup.contacted_nodes)
              closer == SelectSeq(router.closer_contacts, NotContacted)
              further == SelectSeq(router.further_contacts, NotContacted)
              chosen == IF closer # << >> THEN closer ELSE further
              first == Len(lookup.rpcs)
              n == Len(lookup'.rpcs) - first
              alpha == IF Len(chosen) < WideA THEN Len(chosen) ELSE WideA
          IN  /\ n <= alpha
              /\ \A i \in 1 .. n : lookup'.rpcs[first + i].to = chosen[i]
              /\ n = alpha \/ lookup'.found \/ lookup'.aborted
              /\ \A i, j \in 1 .. Len(lookup'.rpcs) :
                    i # j => lookup'.rpcs[i].to # lookup'.rpcs[j].to]_vars

\* C33: find_result is promoted atomically and once: whenever it says
\* found, found_by and found_value are those of the worker that promoted it
\* (they are set), one worker at most has promoted it in a lookup, and the
\* tuple that ParallelRouter.lookup returns never says found with found_by
\* or found_value unset.
C33_PromotedAtomicallyOnce ==
    /\ par.find_result.found =>
          /\ par.find_result.found_by # NoContact
          /\ par.find_result.found_value # ""
    /\ par.promoted <= 1
    /\ (par.returned.kind = "tuple" /\ par.returned.found) =>
          /\ par.returned.found_by # NoContact
          /\ par.returned.val # ""

\* C34: when ParallelRouter.lookup returns after a wait, a worker has found
\* the value, or ret holds K contacts, or no node of closer_contacts or
\* further_contacts is uncontacted.
C34_ReturnsOnlyWhenDone ==
    (par.pc = "returned" /\ par.returned.kind = "tuple") =>
        \/ par.returned.found
        \/ Len(par.ret) >= K
        \/ (SeqToSet(par.closer_contacts) \cup SeqToSet(par.further_contacts))
               \subseteq SeqToSet(par.contacted_nodes)

\* C35: the semaphore counts the queued work items: the permits available
\* never exceed the items in contact_queue, a worker that has acquired the
\* semaphore and has not yet dequeued finds an item in the queue, and no
\* dequeue, of a worker or of the caller, raises.
C35_PermitsCountItems ==
    /\ par.semaphore <= Len(par.contact_queue)
    /\ \A w \in Workers :
          /\ par.worker[w].pc \in {"dequeue", "pop"} =>
                 par.contact_queue # << >>
          /\ par.worker[w].pc # "index_error"
    /\ par.returned.kind # "raised"

\* C36: once stop_work is set and the queue is drained, the queue is empty
\* and the workers terminate. Termination as a safety property: in a state
\* where stop_work is set, the caller is not inside a lookup and no worker
\* can take another step (each one has ended or waits in
\* semaphore.acquire() with no permit left), every worker's thread has
\* ended.
C36_WorkersTerminate ==
    (/\ par.stop_work
     /\ par.pc \in {"idle", "returned"}
     /\ par.semaphore = 0
     /\ \A w \in Workers :
           par.worker[w].pc \in {"acquire", "dead", "index_error"})
    => /\ par.contact_queue = << >>
       /\ \A w \in Workers : par.worker[w].pc \in {"dead", "index_error"}

\* C37: touch(k) on a key that a storage holds, the VirtualStorage or the
\* SecondaryJSONStorage, returns without an error and changes nothing but
\* the republish timestamp of k: the keys stay the same, k keeps its value
\* and its expiration, and every other key keeps its whole entry.
C37_TouchOnlyTimestamp ==
    [][ \A k \in StorKeys :
          ( /\ sres.op = "none"
            /\ sres'.op = "touch"
            /\ sres'.key = k ) =>
              /\ k \in DOMAIN vstore =>
                    /\ sres'.v.ok
                    /\ DOMAIN vstore' = DOMAIN vstore
                    /\ vstore'[k].value = vstore[k].value
                    /\ vstore'[k].expiration_time = vstore[k].expiration_time
                    /\ \A o \in DOMAIN vstore \ {k} : vstore'[o] = vstore[o]
              /\ (~jfile.corrupt /\ k \in DOMAIN jfile.data) =>
                    /\ sres'.j.ok
                    /\ ~jfile'.corrupt
                    /\ DOMAIN jfile'.data = DOMAIN jfile.data
                    /\ jfile'.data[k].value = jfile.data[k].value
                    /\ jfile'.data[k].expiration_time
                           = jfile.data[k].expiration_time
                    /\ \A o \in DOMAIN jfile.data \ {k} :
                           jfile'.data[o] = jfile.data[o]
      ]_vars

\* C38: the handling of one incoming RPC nests only finitely many RPCs: the
\* STORE RPCs of key propagation between a node and a contact new to it are
\* not answered by further STORE RPCs without end, so no handler is still
\* nesting RPCs at the depth up to which they are followed.
C38_HandlingTerminates ==
    last.op # "NESTING"

\* C39: what Router.lookup returns depends on the key, the RPC and the
\* routing tables and storages of the network as the lookup finds them, and
\* on no earlier lookup: a lookup that begins on a router, whatever lookups
\* it ran before, returns the found flag, the value, the node that had it
\* and the contacts that the same lookup returns on a router just built.
C39_LookupForgetsEarlierLookups ==
    [][ (lookup.pc = "idle" /\ lookup'.pc = "classified") =>
          LET Same(here, fresh) ==
                  /\ here.found = fresh.found
                  /\ here.found_by = fresh.found_by
                  /\ here.val = fresh.val
                  /\ here.contacts = fresh.contacts
          IN  Same(Lookup(DhtNet(lookup'.down), router, server, lookup'.key,
                          lookup'.rpc_call, DEBUG),
                   Lookup(DhtNet(lookup'.down), NewRouter, server, lookup'.key,
                          lookup'.rpc_call, DEBUG))
      ]_vars

\* C40: a ParallelRouter serves lookups one after the other: in a FIND_VALUE
\* lookup that follows a lookup which stopped its remaining work, a worker
\* that received the value from the peer it queried, while the caller still
\* waits for the result, promotes it: find_result.found becomes true, and
\* that is what the lookup returns when the caller wakes next.
C40_LaterLookupPromoted ==
    [][ \A w \in Workers :
          ( /\ par.lookups >= 1
            /\ par.stop_work
            /\ par.pc = "sleeping"
            /\ par.rpc_call = "rpc_find_value"
            /\ par.worker[w].pc = "promote"
            /\ par.worker[w].lookup = par.lookups
            /\ par.worker[w].has_val /\ par.worker[w].val # ""
            /\ par'.worker[w].pc # "promote" ) =>
              par'.find_result.found
      ]_vars

====
